---- MODULE Spec2Model ----
(***************************************************************************)
(* Verification model of the schema-driven campaign migration engine:     *)
(* the structural validator (core/file_processor/schema_validator.py),    *)
(* the field mapper and the migration orchestrator                        *)
(* (core/migration_module/migration_module.py) and the mocked Taboola     *)
(* client (external/api_clients.py).                                      *)
(***************************************************************************)
EXTENDS Integers, Sequences, FiniteSets, TLC

(***************************************************************************)
(* Python values.  A value is a record [t, v]: t is type(value).__name__,  *)
(* v the payload.  int: an integer.  float: an integer count of 1/Scale    *)
(* units.  bool: a BOOLEAN.  str: a string.  list: a sequence of values.   *)
(* dict: a sequence of [k, v] pairs with distinct keys, in insertion       *)
(* order.  NoneType: payload 0.  The floats are the finite ones and        *)
(* float('inf'), which json.loads reads from Infinity or 1e999; an int     *)
(* above FloatMax stands for an integer like 10**400, which json.loads     *)
(* reads as well: neither it nor its hundredth has a float.                *)
(***************************************************************************)
Scale == 100 * 100
FloatMax == 2 * 100000

None == [t |-> "NoneType", v |-> 0]
PStr(s) == [t |-> "str", v |-> s]
PInt(n) == [t |-> "int", v |-> n]
PFloat(whole, hundredths) == [t |-> "float", v |-> whole * Scale + hundredths * 100]
PBool(b) == [t |-> "bool", v |-> b]
Inf == [t |-> "float", v |-> (FloatMax + 2) * Scale]
PList(seq) == [t |-> "list", v |-> seq]
PDict(pairs) == [t |-> "dict", v |-> pairs]

KV(k, val) == [k |-> k, v |-> val]

IsNone(x) == x.t = "NoneType"
IsNumeric(x) == x.t \in {"int", "float", "bool"}
IsInf(x) == x.t = "float" /\ x.v = Inf.v
IsHuge(x) == x.t = "int" /\ (x.v > FloatMax \/ x.v < -FloatMax)

\* The numeric value of an int, float or bool, in 1/Scale units.
Num(x) ==
    IF x.t = "int" THEN x.v * Scale
    ELSE IF x.t = "bool" THEN (IF x.v THEN Scale ELSE 0)
    ELSE x.v

\* Python ==, as used by "value not in allowed_values".
PyEq(a, b) ==
    IF IsNumeric(a) /\ IsNumeric(b) THEN Num(a) = Num(b)
    ELSE a.t = b.t /\ a.v = b.v

\* Strings str.strip() reduces to the empty string.
BlankStrings == {"", "  "}

\* Python truthiness: bool(value).
Truthy(x) ==
    CASE x.t = "NoneType" -> FALSE
      [] x.t = "bool" -> x.v
      [] x.t \in {"int", "float"} -> x.v # 0
      [] x.t = "str" -> x.v # ""
      [] OTHER -> Len(x.v) > 0

(***************************************************************************)
(* dict operations on the sequence-of-pairs payload.                       *)
(***************************************************************************)
DKeys(d) == {d[i].k : i \in 1..Len(d)}
DHas(d, key) == \E i \in 1..Len(d) : d[i].k = key
DGet(d, key) == d[CHOOSE i \in 1..Len(d) : d[i].k = key].v
\* dict.get(key): None when the key is absent.
DGetOrNone(d, key) == IF DHas(d, key) THEN DGet(d, key) ELSE None
\* d[key] = val: replaces in place, or appends a new key.
DSet(d, key, val) ==
    IF DHas(d, key)
    THEN [i \in 1..Len(d) |-> IF d[i].k = key THEN KV(key, val) ELSE d[i]]
    ELSE Append(d, KV(key, val))
\* del d[key]
RECURSIVE DDel(_, _)
DDel(d, key) ==
    IF d = <<>> THEN <<>>
    ELSE IF Head(d).k = key THEN Tail(d)
    ELSE <<Head(d)>> \o DDel(Tail(d), key)

(***************************************************************************)
(* Validation schemas (schema_validator.py).  A FieldDefinition is a       *)
(* record; min_value / max_value are None or a number; allowed_values is   *)
(* a sequence (empty for None); nested_schema is a sequence of             *)
(* FieldDefinitions in declaration order (empty for None).                 *)
(***************************************************************************)
FieldDefinition(name, field_type, required, min_value, max_value, allowed_values, nested_schema) ==
    [name |-> name, field_type |-> field_type, required |-> required,
     min_value |-> min_value, max_value |-> max_value,
     allowed_values |-> allowed_values, nested_schema |-> nested_schema]

FacebookTargetingSchema ==
    << FieldDefinition("geo", "string", FALSE, None, None, <<>>, <<>>),
       FieldDefinition("age_min", "integer", FALSE, PInt(13), PInt(65), <<>>, <<>>),
       FieldDefinition("age_max", "integer", FALSE, PInt(18), PInt(65), <<>>, <<>>),
       FieldDefinition("interests", "array", FALSE, None, None, <<>>, <<>>) >>

FacebookFields ==
    << FieldDefinition("name", "string", TRUE, None, None, <<>>, <<>>),
       FieldDefinition("objective", "string", TRUE, None, None,
                       << PStr("LINK_CLICKS"), PStr("CONVERSIONS"), PStr("REACH"),
                          PStr("BRAND_AWARENESS") >>, <<>>),
       FieldDefinition("daily_budget", "number", TRUE, PFloat(1, 0), PFloat(100000, 0),
                       <<>>, <<>>),
       FieldDefinition("targeting", "object", FALSE, None, None, <<>>,
                       FacebookTargetingSchema),
       FieldDefinition("creatives", "array", FALSE, None, None, <<>>, <<>>) >>

TwitterFields ==
    << FieldDefinition("name", "string", TRUE, None, None, <<>>, <<>>),
       FieldDefinition("total_budget", "number", TRUE, PFloat(1, 0), None, <<>>, <<>>),
       FieldDefinition("account_name", "string", FALSE, None, None, <<>>, <<>>),
       FieldDefinition("tweet_creatives", "array", FALSE, None, None, <<>>, <<>>) >>

\* PlatformSchema._load_platform_schema: an unknown platform has no fields.
LoadPlatformSchema(platform) ==
    IF platform = "facebook" THEN FacebookFields
    ELSE IF platform = "twitter" THEN TwitterFields
    ELSE <<>>

SchemaHas(fields, key) == \E i \in 1..Len(fields) : fields[i].name = key

(***************************************************************************)
(* The structural validator.  A field_path is the sequence of the path's   *)
(* pieces, "." included: JoinPath is f"{field_path}.{nested_field}".       *)
(***************************************************************************)
JoinPath(field_path, nested_field) == field_path \o <<".", nested_field>>

\* str(value): told apart by the type and the value it was made from.
Str(value) == <<"str", value>>

ValidationIssue(campaign_index, field_path, issue_type, expected, actual) ==
    [campaign_index |-> campaign_index, field_path |-> field_path,
     issue_type |-> issue_type, expected |-> expected, actual |-> actual]

\* SchemaValidator._check_type: isinstance, under which a bool is an int.
CheckType(value, expected_type) ==
    CASE expected_type = "string" -> value.t = "str"
      [] expected_type = "number" -> value.t \in {"int", "float", "bool"}
      [] expected_type = "integer" -> value.t \in {"int", "bool"}
      [] expected_type = "boolean" -> value.t = "bool"
      [] expected_type = "object" -> value.t = "dict"
      [] expected_type = "array" -> value.t = "list"
      [] OTHER -> FALSE

InAllowed(value, allowed_values) ==
    \E i \in 1..Len(allowed_values) : PyEq(value, allowed_values[i])

\* A variant of RangeIssues whose bounds are exclusive.
RangeIssuesExclusive(value, field_def, campaign_index, field_path) ==
    IF field_def.field_type \in {"number", "integer"} /\ IsNumeric(value)
    THEN (IF ~IsNone(field_def.min_value) /\ Num(value) <= Num(field_def.min_value)
          THEN << ValidationIssue(campaign_index, field_path, "value_too_small",
                                  <<">= ", field_def.min_value>>, Str(value)) >>
          ELSE <<>>)
         \o
         (IF ~IsNone(field_def.max_value) /\ Num(value) >= Num(field_def.max_value)
          THEN << ValidationIssue(campaign_index, field_path, "value_too_large",
                                  <<"<= ", field_def.max_value>>, Str(value)) >>
          ELSE <<>>)
    ELSE <<>>

RangeIssues(value, field_def, campaign_index, field_path) ==
    IF field_def.field_type \in {"number", "integer"} /\ IsNumeric(value)
    THEN (IF ~IsNone(field_def.min_value) /\ Num(value) < Num(field_def.min_value)
          THEN << ValidationIssue(campaign_index, field_path, "value_too_small",
                                  <<">= ", field_def.min_value>>, Str(value)) >>
          ELSE <<>>)
         \o
         (IF ~IsNone(field_def.max_value) /\ Num(value) > Num(field_def.max_value)
          THEN << ValidationIssue(campaign_index, field_path, "value_too_large",
                                  <<"<= ", field_def.max_value>>, Str(value)) >>
          ELSE <<>>)
    ELSE <<>>

AllowedIssues(value, field_def, campaign_index, field_path) ==
    IF Len(field_def.allowed_values) > 0 /\ ~InAllowed(value, field_def.allowed_values)
    THEN << ValidationIssue(campaign_index, field_path, "invalid_value",
                            <<"One of: ", field_def.allowed_values>>, Str(value)) >>
    ELSE <<>>

EmptyStringIssues(value, field_def, campaign_index, field_path) ==
    IF field_def.field_type = "string" /\ value.t = "str" /\ value.v \in BlankStrings
    THEN << ValidationIssue(campaign_index, field_path, "empty_string",
                            <<"Non-empty string">>, <<"Empty string">>) >>
    ELSE <<>>

RECURSIVE ValidateFieldValue(_, _, _, _)
RECURSIVE NestedIssues(_, _, _, _, _)

\* A loop that validates a nested key under its own name, not under the parent's path.
NestedIssuesBarePath(value, nested_schema, campaign_index, field_path, k) ==
    IF k > Len(nested_schema) THEN <<>>
    ELSE (IF DHas(value.v, nested_schema[k].name)
          THEN ValidateFieldValue(DGet(value.v, nested_schema[k].name), nested_schema[k],
                                  campaign_index, <<nested_schema[k].name>>)
          ELSE <<>>)
         \o NestedIssues(value, nested_schema, campaign_index, field_path, k + 1)

\* The loop over field_def.nested_schema.items(), from its k-th entry on.
NestedIssues(value, nested_schema, campaign_index, field_path, k) ==
    IF k > Len(nested_schema) THEN <<>>
    ELSE (IF DHas(value.v, nested_schema[k].name)
          THEN ValidateFieldValue(DGet(value.v, nested_schema[k].name), nested_schema[k],
                                  campaign_index, JoinPath(field_path, nested_schema[k].name))
          ELSE <<>>)
         \o NestedIssues(value, nested_schema, campaign_index, field_path, k + 1)

\* A variant of ValidateFieldValue that stops at a value out of its bounds.
ValidateFieldValueStopAtBounds(value, field_def, campaign_index, field_path) ==
    IF ~CheckType(value, field_def.field_type)
    THEN << ValidationIssue(campaign_index, field_path, "type_mismatch",
                            <<field_def.field_type>>, <<value.t, ": ", Str(value)>>) >>
    ELSE IF RangeIssues(value, field_def, campaign_index, field_path) # <<>>
    THEN RangeIssues(value, field_def, campaign_index, field_path)
    ELSE AllowedIssues(value, field_def, campaign_index, field_path)
         \o EmptyStringIssues(value, field_def, campaign_index, field_path)
         \o (IF field_def.field_type = "object" /\ Len(field_def.nested_schema) > 0
                /\ value.t = "dict"
             THEN NestedIssues(value, field_def.nested_schema, campaign_index, field_path, 1)
             ELSE <<>>)

\* SchemaValidator._validate_field_value
ValidateFieldValue(value, field_def, campaign_index, field_path) ==
    IF ~CheckType(value, field_def.field_type)
    THEN << ValidationIssue(campaign_index, field_path, "type_mismatch",
                            <<field_def.field_type>>, <<value.t, ": ", Str(value)>>) >>
    ELSE RangeIssues(value, field_def, campaign_index, field_path)
         \o AllowedIssues(value, field_def, campaign_index, field_path)
         \o EmptyStringIssues(value, field_def, campaign_index, field_path)
         \o (IF field_def.field_type = "object" /\ Len(field_def.nested_schema) > 0
                /\ value.t = "dict"
             THEN NestedIssues(value, field_def.nested_schema, campaign_index, field_path, 1)
             ELSE <<>>)

\* A variant of SchemaFieldIssues that validates a required field that is absent
\* as if its value were None, on top of reporting it missing.
SchemaFieldIssuesNoSkip(campaign, field_def, campaign_index) ==
    (IF field_def.required /\ ~DHas(campaign, field_def.name)
     THEN << ValidationIssue(campaign_index, <<field_def.name>>, "missing_required_field",
                             <<"Required field ", field_def.name>>, <<"Missing">>) >>
     ELSE <<>>)
    \o ValidateFieldValue(DGetOrNone(campaign, field_def.name), field_def, campaign_index,
                          <<field_def.name>>)

\* One pass of the loop over schema.fields.items(): the issues of one schema field.
SchemaFieldIssues(campaign, field_def, campaign_index) ==
    IF field_def.required /\ ~DHas(campaign, field_def.name)
    THEN << ValidationIssue(campaign_index, <<field_def.name>>, "missing_required_field",
                            <<"Required field ", field_def.name>>, <<"Missing">>) >>
    ELSE IF DHas(campaign, field_def.name)
    THEN ValidateFieldValue(DGet(campaign, field_def.name), field_def, campaign_index,
                            <<field_def.name>>)
    ELSE <<>>

RECURSIVE SchemaLoopIssues(_, _, _, _)
SchemaLoopIssues(campaign, fields, campaign_index, k) ==
    IF k > Len(fields) THEN <<>>
    ELSE SchemaFieldIssues(campaign, fields[k], campaign_index)
         \o SchemaLoopIssues(campaign, fields, campaign_index, k + 1)

\* A variant of UnknownFieldIssues that reports the first unknown key only.
UnknownFieldIssuesFirstOnly(campaign, fields, campaign_index, k) ==
    IF \E j \in k..Len(campaign) : ~SchemaHas(fields, campaign[j].k)
    THEN << ValidationIssue(campaign_index,
                            <<campaign[CHOOSE j \in k..Len(campaign) :
                                          /\ ~SchemaHas(fields, campaign[j].k)
                                          /\ \A h \in k..(j - 1) :
                                                SchemaHas(fields, campaign[h].k)].k>>,
                            "unknown_field", <<"Field not in schema">>, <<"Field">>) >>
    ELSE <<>>

\* The loop over campaign.keys(): the keys the schema does not define.
RECURSIVE UnknownFieldIssues(_, _, _, _)
UnknownFieldIssues(campaign, fields, campaign_index, k) ==
    IF k > Len(campaign) THEN <<>>
    ELSE (IF ~SchemaHas(fields, campaign[k].k)
          THEN << ValidationIssue(campaign_index, <<campaign[k].k>>, "unknown_field",
                                  <<"Field not in schema">>,
                                  <<"Field ", campaign[k].k, " with value: ",
                                    Str(campaign[k].v)>>) >>
          ELSE <<>>)
         \o UnknownFieldIssues(campaign, fields, campaign_index, k + 1)

\* SchemaValidator._validate_single_campaign
ValidateSingleCampaign(campaign, fields, campaign_index) ==
    SchemaLoopIssues(campaign, fields, campaign_index, 1)
    \o UnknownFieldIssues(campaign, fields, campaign_index, 1)

(***************************************************************************)
(* validate_campaigns_against_schema and generate_schema_comparison_summary *)
(***************************************************************************)
EmptyPartition == [valid |-> <<>>, issues |-> <<>>]

\* A variant of PartitionStep that keeps every record in the valid list.
PartitionStepKeepAll(acc, campaign, campaign_issues) ==
    [valid |-> Append(acc.valid, campaign), issues |-> acc.issues \o campaign_issues]

\* A variant of PartitionStep that leaves out the issues of a record that has
\* more than one.
PartitionStepSkipMany(acc, campaign, campaign_issues) ==
    IF campaign_issues = <<>> THEN [acc EXCEPT !.valid = Append(@, campaign)]
    ELSE IF Len(campaign_issues) > 1 THEN acc
    ELSE [acc EXCEPT !.issues = @ \o campaign_issues]

\* Lines 143-146: the record goes to valid_campaigns, or its issues to all_issues.
PartitionStep(acc, campaign, campaign_issues) ==
    IF campaign_issues = <<>> THEN [acc EXCEPT !.valid = Append(@, campaign)]
    ELSE [acc EXCEPT !.issues = @ \o campaign_issues]

\* A serialization that numbers the campaigns from 0.
SerializeIssueFromZero(issue) ==
    [campaign_number |-> issue.campaign_index,
     campaign_index |-> issue.campaign_index,
     field_path |-> issue.field_path,
     issue_type |-> issue.issue_type,
     expected |-> issue.expected,
     actual |-> issue.actual]

\* SchemaValidator._serialize_issue
SerializeIssue(issue) ==
    [campaign_number |-> issue.campaign_index + 1,
     campaign_index |-> issue.campaign_index,
     field_path |-> issue.field_path,
     issue_type |-> issue.issue_type,
     expected |-> issue.expected,
     actual |-> issue.actual]

\* campaigns[:3]
FirstThree(campaigns) == SubSeq(campaigns, 1, IF Len(campaigns) < 3 THEN Len(campaigns) ELSE 3)

\* f"{issue.field_path}:{issue.issue_type}"
IssueKey(issue) == issue.field_path \o <<":", issue.issue_type>>

\* A count that records a key once, however often it is seen.
CountKeySeenOnly(counts, key) == DSet(counts, key, 1)

\* counts[key] = counts.get(key, 0) + 1
CountKey(counts, key) == DSet(counts, key, (IF DHas(counts, key) THEN DGet(counts, key) ELSE 0) + 1)

EmptyPatterns == [most_common_issues |-> <<>>, affected_fields |-> <<>>, issue_types |-> <<>>]

\* Lines 333-342: the three counts for one issue.
PatternStep(patterns, issue) ==
    [most_common_issues |-> CountKey(patterns.most_common_issues, IssueKey(issue)),
     affected_fields |-> CountKey(patterns.affected_fields, issue.field_path),
     issue_types |-> CountKey(patterns.issue_types, issue.issue_type)]

RECURSIVE AnalyzeFrom(_, _, _)
AnalyzeFrom(issues, k, patterns) ==
    IF k > Len(issues) THEN patterns
    ELSE AnalyzeFrom(issues, k + 1, PatternStep(patterns, issues[k]))

\* SchemaValidator._analyze_issue_patterns
AnalyzeIssuePatterns(issues) == AnalyzeFrom(issues, 1, EmptyPatterns)

\* SchemaValidator.generate_schema_comparison_summary, without expected_schema.
SchemaComparisonSummary(campaigns, issues, platform) ==
    [platform |-> platform,
     total_campaigns |-> Len(campaigns),
     total_issues |-> Len(issues),
     validation_issues |-> [i \in 1..Len(issues) |-> SerializeIssue(issues[i])],
     sample_data |-> FirstThree(campaigns),
     issue_patterns |-> AnalyzeIssuePatterns(issues)]

(***************************************************************************)
(* Exceptions.  An exception is a record [cls, msg]; "" as cls means that  *)
(* nothing was raised.  ExcBases lists the classes an except clause for    *)
(* which catches it.                                                       *)
(***************************************************************************)
NoExc == [cls |-> "", msg |-> ""]
Exc(cls, msg) == [cls |-> cls, msg |-> msg]
Raised(e) == e.cls # ""

ExcBases(cls) ==
    CASE cls \in {"ApiError", "ValidationError", "DataProcessingError"}
            -> {cls, "CampaignAssistantError", "Exception"}
      [] cls = "ApiException" -> {"ApiException", "Exception"}
      [] cls = "OverflowError" -> {"OverflowError", "ArithmeticError", "Exception"}
      [] OTHER -> {cls, "Exception"}

IsInstance(e, cls) == cls \in ExcBases(e.cls)

Ok(val) == [exc |-> NoExc, val |-> val]
Fail(cls, msg) == [exc |-> Exc(cls, msg), val |-> None]

(***************************************************************************)
(* with_retry and with_fallback (core/error_handler/error_recovery.py).    *)
(***************************************************************************)
\* e.category, which the subclasses of CampaignAssistantError fix in __init__.
ErrorCategory(e) ==
    CASE e.cls = "ValidationError" -> "validation"
      [] e.cls = "ApiError" -> "api"
      [] e.cls = "DataProcessingError" -> "data_processing"
      [] OTHER -> ""

\* A wrapper that retries after every exception.
RetriesEverything(e) == FALSE

\* Lines 189-190: the exceptions with_retry raises again at once.
NotRetried(e) == IsInstance(e, "CampaignAssistantError") /\ ErrorCategory(e) = "validation"

\* Line 209, raise last_exception: raising None is a TypeError.
RaiseLast(last_exception) ==
    IF Raised(last_exception) THEN last_exception
    ELSE Exc("TypeError", "exceptions must derive from BaseException")

\* A wrapper that lets the fallback's exception out.
FallbackErrorRaised(e, fallback_error) == fallback_error

\* Lines 229-231: main and fallback both raised; raise e.
OriginalErrorRaised(e, fallback_error) == e

(***************************************************************************)
(* FileProcessor.validate_campaign_data, given what                        *)
(* validate_campaigns_against_schema returned.                             *)
(***************************************************************************)
\* The except clause (lines 194-201): a ValidationError goes on as it is, anything
\* else is wrapped in a DataProcessingError.
DataReraised(e) ==
    IF IsInstance(e, "ValidationError") THEN e
    ELSE Exc("DataProcessingError", "Campaign validation failed: {e}")

\* Lines 177-192: what the call returns, or the exception it ends with.
ValidateCampaignData(validated_campaigns, validation_issues, campaigns, platform) ==
    IF validation_issues = <<>>
    THEN [exc |-> NoExc, validated |-> validated_campaigns, has_issues |-> FALSE,
          schema_comparison |-> <<>>]
    ELSE IF validated_campaigns = <<>>
    THEN [exc |-> DataReraised(Exc("ValidationError",
                                   "No valid campaigns found in uploaded file")),
          validated |-> <<>>, has_issues |-> TRUE, schema_comparison |-> <<>>]
    ELSE [exc |-> NoExc, validated |-> validated_campaigns, has_issues |-> TRUE,
          schema_comparison |->
              SchemaComparisonSummary(campaigns, validation_issues, platform)]

(***************************************************************************)
(* Mapping schemas (migration_module/schema_models.py).  A MappingRule     *)
(* holds "" for an Optional[str] that is None and None for no default.     *)
(* A PlatformSchema is the sequence of its five target fields in           *)
(* declaration order, which is the order schema.dict().items() yields.     *)
(***************************************************************************)
MappingRule(source_field, default, field_type, transform, warning) ==
    [source_field |-> source_field, default |-> default, field_type |-> field_type,
     transform |-> transform, warning |-> warning]

PlatformSchema(name, daily_cap, branding_text, cpc_bid, creatives) ==
    << [field |-> "name", rule |-> name], [field |-> "daily_cap", rule |-> daily_cap],
       [field |-> "branding_text", rule |-> branding_text],
       [field |-> "cpc_bid", rule |-> cpc_bid], [field |-> "creatives", rule |-> creatives] >>

(***************************************************************************)
(* The transform registry of PlatformAdapter.                              *)
(***************************************************************************)
\* _divide_by_100: value / 100 is true division; a str, list or dict raises, and
\* so does an int whose hundredth is beyond the floats.  inf / 100 is inf.
DivideBy100(value) ==
    IF IsNone(value) THEN Ok(None)
    ELSE IF IsHuge(value)
    THEN Fail("OverflowError", "integer division result too large for a float")
    ELSE IF IsInf(value) THEN Ok(value)
    ELSE IF IsNumeric(value) THEN Ok([t |-> "float", v |-> Num(value) \div 100])
    ELSE Fail("TypeError", "unsupported operand type(s) for /")

AllDicts(seq) == \A i \in 1..Len(seq) : seq[i].t = "dict"

\* The list comprehension of _extract_creative_data / _extract_tweet_creative_data
\* over "creatives or []", reading url_key and title_key with c.get.
ExtractCreatives(creatives, url_key, title_key) ==
    IF ~Truthy(creatives) THEN Ok(PList(<<>>))
    ELSE IF creatives.t \in {"int", "float", "bool"}
    THEN Fail("TypeError", "object is not iterable")
    ELSE IF creatives.t = "list" /\ AllDicts(creatives.v)
    THEN Ok(PList([i \in 1..Len(creatives.v) |->
                    PDict(<< KV("photo_url", DGetOrNone(creatives.v[i].v, url_key)),
                             KV("title", DGetOrNone(creatives.v[i].v, title_key)) >>)]))
    ELSE Fail("AttributeError", "object has no attribute 'get'")

Transformations == {"divide_by_100", "extract_creative_data", "extract_tweet_creative_data"}

ApplyTransform(name, value) ==
    CASE name = "divide_by_100" -> DivideBy100(value)
      [] name = "extract_creative_data" -> ExtractCreatives(value, "image_url", "headline")
      [] name = "extract_tweet_creative_data" -> ExtractCreatives(value, "media_url", "text")

(***************************************************************************)
(* Type coercion: int(value), float(value), bool(value).                   *)
(***************************************************************************)
\* The strings of the model that int() and float() parse, with their values.
IntLiterals == {"12"}
FloatLiterals == {"12", "20.5"}
ParseUnits(s) == IF s = "12" THEN 12 * Scale ELSE 20 * Scale + 50 * 100

\* Truncation toward zero of a count of 1/Scale units.
Trunc(units) == IF units >= 0 THEN units \div Scale ELSE -((-units) \div Scale)

\* int(value): OverflowError for an infinite float.
CastInt(value) ==
    CASE IsInf(value) -> Fail("OverflowError", "cannot convert float infinity to integer")
      [] value.t = "int" -> Ok(value)
      [] value.t \in {"bool", "float"} /\ ~IsInf(value) -> Ok(PInt(Trunc(Num(value))))
      [] value.t = "str" ->
            IF value.v \in IntLiterals THEN Ok(PInt(Trunc(ParseUnits(value.v))))
            ELSE Fail("ValueError", "invalid literal for int()")
      [] OTHER -> Fail("TypeError", "int() argument must be a string or a number")

\* float(value): OverflowError for an int beyond the floats.
CastFloat(value) ==
    CASE IsHuge(value) -> Fail("OverflowError", "int too large to convert to float")
      [] value.t = "float" -> Ok(value)
      [] value.t \in {"int", "bool"} /\ ~IsHuge(value) -> Ok([t |-> "float", v |-> Num(value)])
      [] value.t = "str" ->
            IF value.v \in FloatLiterals THEN Ok([t |-> "float", v |-> ParseUnits(value.v)])
            ELSE Fail("ValueError", "could not convert string to float")
      [] OTHER -> Fail("TypeError", "float() argument must be a string or a number")

Cast(value, field_type) ==
    CASE field_type = "integer" -> CastInt(value)
      [] field_type = "float" -> CastFloat(value)
      [] field_type = "boolean" -> Ok(PBool(Truthy(value)))
      [] OTHER -> Ok(value)

(***************************************************************************)
(* Messages.  An f-string is the record of its fixed text and the values   *)
(* formatted into it.                                                      *)
(***************************************************************************)
Msg(text, args) == [text |-> text, args |-> args]

(***************************************************************************)
(* PlatformAdapter.map_to_taboola.  The state of the loop is               *)
(* [exc, data, warnings, report_warnings]: the exception that left the     *)
(* loop (if any), taboola_campaign, the local warnings list, and the       *)
(* warnings the loop added to the report itself.                           *)
(***************************************************************************)
MapStart == [exc |-> NoExc, data |-> <<>>, warnings |-> <<>>, report_warnings |-> <<>>]

WithStaticWarning(acc, rule) ==
    IF rule.warning # "" THEN [acc EXCEPT !.warnings = Append(@, Msg(rule.warning, <<>>))]
    ELSE acc

\* Lines 107-109: the source value, None when the rule names no present source field.
ReadSource(source_data, rule) ==
    IF rule.source_field # "" /\ DHas(source_data, rule.source_field)
    THEN DGet(source_data, rule.source_field)
    ELSE None

\* Lines 111-112: the transform, when the rule names one of the registry.
TransformStep(rule, value) ==
    IF rule.transform # "" /\ rule.transform \in Transformations
    THEN ApplyTransform(rule.transform, value)
    ELSE Ok(value)

\* Lines 115-125: the outcome of the coercion of a non-null value.  The except
\* clause is for ValueError and TypeError: any other exception leaves the loop.
MapCast(taboola_field, rule, acc, cast) ==
    IF Raised(cast.exc) /\ ~IsInstance(cast.exc, "ValueError")
                       /\ ~IsInstance(cast.exc, "TypeError")
    THEN [acc EXCEPT !.exc = cast.exc]
    ELSE IF Raised(cast.exc)
    THEN [acc EXCEPT !.warnings =
              Append(@, Msg("Could not cast {field} to {field_type}. Error: {e}",
                            <<taboola_field, rule.field_type, cast.exc.cls>>))]
    ELSE WithStaticWarning([acc EXCEPT !.data = DSet(@, taboola_field, cast.val)], rule)

\* A default branch that coerces the default to the rule's field_type.
MapTransformedCoercingDefault(taboola_field, rule, acc, transformed) ==
    IF Raised(transformed.exc) THEN [acc EXCEPT !.exc = transformed.exc]
    ELSE IF ~IsNone(transformed.val)
    THEN MapCast(taboola_field, rule, acc, Cast(transformed.val, rule.field_type))
    ELSE IF ~IsNone(rule.default)
    THEN MapCast(taboola_field, rule, acc, Cast(rule.default, rule.field_type))
    ELSE WithStaticWarning(
             [acc EXCEPT !.report_warnings =
                  Append(@, Msg("No value or default found for required field '{field}'.",
                                <<taboola_field>>))], rule)

\* Lines 114-132, given what the transform step produced.
MapTransformed(taboola_field, rule, acc, transformed) ==
    IF Raised(transformed.exc) THEN [acc EXCEPT !.exc = transformed.exc]
    ELSE IF ~IsNone(transformed.val)
    THEN MapCast(taboola_field, rule, acc, Cast(transformed.val, rule.field_type))
    ELSE IF ~IsNone(rule.default)
    THEN WithStaticWarning([acc EXCEPT !.data = DSet(@, taboola_field, rule.default)], rule)
    ELSE WithStaticWarning(
             [acc EXCEPT !.report_warnings =
                  Append(@, Msg("No value or default found for required field '{field}'.",
                                <<taboola_field>>))], rule)

\* The body of the loop for one target field.
MapField(source_data, taboola_field, rule, acc) ==
    MapTransformed(taboola_field, rule, acc,
                   TransformStep(rule, ReadSource(source_data, rule)))

RECURSIVE MapLoop(_, _, _, _)
MapLoop(source_data, schema, k, acc) ==
    IF k > Len(schema) \/ Raised(acc.exc) THEN acc
    ELSE MapLoop(source_data, schema, k + 1,
                 MapField(source_data, schema[k].field, schema[k].rule, acc))

MapToTaboola(source_data, schema) == MapLoop(source_data, schema, 1, MapStart)

(***************************************************************************)
(* The mapping schemas the adapters load (schemas/<platform>_schema.json). *)
(* They are inputs of the engine: each adapter configuration below is one  *)
(* pair of loadable schemas.                                               *)
(***************************************************************************)
FacebookMapping ==
    PlatformSchema(
        MappingRule("name", None, "string", "", ""),
        MappingRule("daily_budget", None, "float", "", ""),
        MappingRule("", PStr("Brand"), "string", "", "Branding text defaulted"),
        MappingRule("", PFloat(0, 50), "float", "", "CPC bid defaulted"),
        MappingRule("creatives", None, "string", "extract_creative_data", ""))

TwitterMapping ==
    PlatformSchema(
        MappingRule("name", None, "string", "", ""),
        MappingRule("total_budget", None, "float", "divide_by_100", "Total budget converted"),
        MappingRule("account_name", None, "string", "", ""),
        MappingRule("", PFloat(0, 50), "float", "", ""),
        MappingRule("tweet_creatives", None, "string", "extract_tweet_creative_data", ""))

\* Schemas that read the wrong source fields: loadable, and mapping raises on them.
FacebookMappingAlt ==
    PlatformSchema(
        MappingRule("name", None, "string", "", ""),
        MappingRule("name", None, "float", "divide_by_100", ""),
        MappingRule("objective", PStr("Brand"), "string", "", ""),
        MappingRule("daily_budget", None, "integer", "", "CPC bid truncated"),
        MappingRule("targeting", None, "string", "", ""))

TwitterMappingAlt ==
    PlatformSchema(
        MappingRule("title", None, "string", "", ""),
        MappingRule("total_budget", None, "integer", "", ""),
        MappingRule("account_name", None, "boolean", "", ""),
        MappingRule("", PInt(0), "float", "", ""),
        MappingRule("name", None, "string", "extract_tweet_creative_data", ""))

AdapterConfigs ==
    { [facebook |-> FacebookMapping, twitter |-> TwitterMapping],
      [facebook |-> FacebookMappingAlt, twitter |-> TwitterMappingAlt] }

\* str.lower() on the platform names of the model.
Lower(platform) ==
    CASE platform = "Twitter" -> "twitter"
      [] platform = "Facebook" -> "facebook"
      [] OTHER -> platform

\* self.adapters.get(source_platform.lower()) finds an adapter.
HasAdapter(platform) == Lower(platform) \in {"facebook", "twitter"}

(***************************************************************************)
(* MigrationReport                                                         *)
(***************************************************************************)
EmptyReport == [successes |-> <<>>, failures |-> <<>>, warnings |-> <<>>]
\* A report that puts a new success in front of the earlier ones.
AddSuccessInFront(r, message) == [r EXCEPT !.successes = <<message>> \o @]
AddSuccess(r, message) == [r EXCEPT !.successes = Append(@, message)]
AddFailure(r, message, error) ==
    [r EXCEPT !.failures = Append(@, [message |-> message, error |-> error])]
AddWarning(r, message) == [r EXCEPT !.warnings = Append(@, message)]

RECURSIVE AddWarnings(_, _)
AddWarnings(r, messages) ==
    IF messages = <<>> THEN r
    ELSE AddWarnings(AddWarning(r, Head(messages)), Tail(messages))

(***************************************************************************)
(* The Taboola client (external/api_clients.py) and _upload_to_taboola.    *)
(***************************************************************************)
RequiredTaboolaFields == <<"name", "branding_text", "cpc_bid", "daily_cap">>

MissingFields(campaign_data) ==
    SelectSeq(RequiredTaboolaFields, LAMBDA f : ~Truthy(DGetOrNone(campaign_data, f)))

\* TaboolaApiClient.create_campaign
CreateCampaign(campaign_data) ==
    IF MissingFields(campaign_data) # <<>>
    THEN Fail("ApiError", "Cannot create campaign. Missing required fields")
    ELSE Ok(PDict(<< KV("id", PStr("taboola_campaign_98765")),
                     KV("name", DGet(campaign_data, "name")),
                     KV("branding_text", DGet(campaign_data, "branding_text")),
                     KV("cpc_bid", DGet(campaign_data, "cpc_bid")),
                     KV("daily_cap", DGet(campaign_data, "daily_cap")),
                     KV("status", PStr("PENDING_APPROVAL")) >>))

\* What an injected ITaboolaApiClient may do instead of answering: "" (nothing,
\* the client answers as TaboolaApiClient does) or raise the ApiException its
\* contract documents.
ClientFaults == {"", "ApiException"}

ClientCreateCampaign(campaign_data, fault) ==
    IF fault # "" THEN Fail(fault, "the API returned an error")
    ELSE CreateCampaign(campaign_data)

\* The except clauses of _upload_to_taboola.
UploadCatches(e) == IsInstance(e, "ApiError") \/ IsInstance(e, "ApiException")

\* The try block and the except clauses of _upload_to_taboola, given the client's
\* response: [report, exc, rejected]; exc is what it lets through.
UploadOutcome(report, response) ==
    IF ~Raised(response.exc)
    THEN [report |-> AddSuccess(report,
                        Msg("Campaign '{name}' created in Taboola with ID '{id}'.",
                            << DGetOrNone(response.val.v, "name"),
                               DGetOrNone(response.val.v, "id") >>)),
          exc |-> NoExc, rejected |-> FALSE]
    ELSE IF UploadCatches(response.exc)
    THEN [report |-> AddFailure(report,
                        Msg("Failed to create campaign in Taboola: {e}",
                            <<response.exc.msg>>), response.exc.cls),
          exc |-> NoExc, rejected |-> TRUE]
    ELSE [report |-> report, exc |-> response.exc, rejected |-> TRUE]

\* _upload_to_taboola
UploadToTaboola(taboola_data, report, fault) ==
    UploadOutcome(report, ClientCreateCampaign(taboola_data, fault))

(***************************************************************************)
(* migrate_campaigns_from_file: one pass of the loop over file_data.       *)
(***************************************************************************)
\* campaign_data.get('name', f'Campaign_{i+1}'), i counting from 0.
CampaignName(campaign_data, i) ==
    IF DHas(campaign_data, "name") THEN DGet(campaign_data, "name")
    ELSE [t |-> "str", v |-> <<"Campaign_", i + 1>>]

RECURSIVE PrefixWarnings(_, _)
PrefixWarnings(campaign_name, warnings) ==
    IF warnings = <<>> THEN <<>>
    ELSE << Msg("Campaign '{campaign_name}': {warning}", <<campaign_name, Head(warnings)>>) >>
         \o PrefixWarnings(campaign_name, Tail(warnings))

\* A variant of BatchInnerCatches: "except ApiError" in place of "except Exception".
BatchInnerCatchesApiOnly(e) == IsInstance(e, "ApiError")

\* The inner "except Exception" (line 274) and the outer one (line 277).
BatchInnerCatches(e) == IsInstance(e, "Exception")
BatchOuterCatches(e) == IsInstance(e, "Exception")

\* A variant of BatchHandle with no "except Exception" clause, inner or outer.
BatchHandleApiOnly(e) == IF IsInstance(e, "ApiError") THEN "record_failure" ELSE "raise"

\* Where an exception raised inside the inner try ends: the inner except clause
\* (a failure of the record), the outer one (a failure of the batch), or the caller.
BatchHandle(e) ==
    IF BatchInnerCatches(e) THEN "record_failure"
    ELSE IF BatchOuterCatches(e) THEN "batch_failure"
    ELSE "raise"

\* The end of a pass of the loop: r is the report so far, e the exception raised
\* inside the inner try (if any) and handled where it ends.
BatchOutcome(r, campaign_name, m, e, handled, upload_rejected) ==
    [report |->
        IF ~Raised(e)
        THEN AddSuccess(r, Msg("Successfully migrated campaign '{campaign_name}'",
                               <<campaign_name>>))
        ELSE IF handled = "record_failure"
        THEN AddFailure(r, Msg("Failed to migrate campaign '{campaign_name}': {e}",
                               <<campaign_name, e.msg>>), e.cls)
        ELSE IF handled = "batch_failure"
        THEN AddFailure(r, Msg("Batch migration failed: {e}", <<e.msg>>), e.cls)
        ELSE r,
     handled |-> handled,
     map_exc |-> m.exc.cls,
     mapped |-> m.data,
     upload_called |-> ~Raised(m.exc),
     upload_rejected |-> upload_rejected,
     migrated |-> ~Raised(e)]

\* Lines 271-275, given what _upload_to_taboola did.
BatchAfterUpload(campaign_name, m, u) ==
    BatchOutcome(u.report, campaign_name, m, u.exc,
                 IF Raised(u.exc) THEN BatchHandle(u.exc) ELSE "", u.rejected)

\* Lines 267-275, given what map_to_taboola did: r is the report with the warnings
\* the mapper added to it itself.
BatchAfterMap(r, campaign_name, m, fault) ==
    IF Raised(m.exc)
    THEN BatchOutcome(r, campaign_name, m, m.exc, BatchHandle(m.exc), FALSE)
    ELSE BatchAfterUpload(campaign_name, m,
             UploadToTaboola(m.data,
                             AddWarnings(r, PrefixWarnings(campaign_name, m.warnings)),
                             fault))

\* Lines 265-275, given what map_to_taboola did.
BatchMapped(report, campaign_name, m, fault) ==
    BatchAfterMap(AddWarnings(report, m.report_warnings), campaign_name, m, fault)

\* The loop body for record i (from 0): the report after it and what happened.
BatchProcessRecord(report, i, campaign_data, schema, fault) ==
    BatchMapped(report, CampaignName(campaign_data, i),
                MapToTaboola(campaign_data, schema), fault)

(***************************************************************************)
(* The source clients and fetch_campaign_data.                             *)
(***************************************************************************)
\* FacebookApiClient.get_campaign: the canned campaign of "fb-001" ...
FacebookGoodCampaign ==
    << KV("name", PStr("My Awesome FB Campaign")), KV("objective", PStr("LINK_CLICKS")),
       KV("daily_budget", PFloat(20, 0)),
       KV("targeting", PDict(<< KV("geo", PStr("US")), KV("age_min", PInt(25)),
                                KV("interests", PList(<<PStr("sports"), PStr("finance")>>)) >>)),
       KV("creatives", PList(<< PDict(<< KV("image_url", PStr("http://facebook.com/img.png")),
                                         KV("headline", PStr("My FB Ad")) >>) >>)) >>
\* ... and of every other id: no name, a negative budget.
FacebookBadCampaign ==
    << KV("objective", PStr("LINK_CLICKS")), KV("daily_budget", PInt(-3)),
       KV("targeting", PDict(<< KV("geo", PStr("US")), KV("age_min", PInt(25)),
                                KV("interests", PList(<<PStr("sports"), PStr("finance")>>)) >>)),
       KV("creatives", PList(<< PDict(<< KV("image_url", PStr("http://facebook.com/img.png")),
                                         KV("headline", PStr("My FB Ad")) >>) >>)) >>

\* TwitterAdapter.fetch_campaign_data: a mock, whatever the id.
TwitterMockCampaign ==
    << KV("name", PStr("Mock Twitter Campaign")), KV("total_budget", PInt(5000)),
       KV("account_name", PStr("Mock Twitter Brand")),
       KV("tweet_creatives",
          PList(<< PDict(<< KV("media_url", PStr("http://example.com/tweet_img.jpg")),
                            KV("text", PStr("Check out our new product!")) >>) >>)) >>

FacebookClientRequired == {"name", "objective", "daily_budget", "targeting", "creatives"}

\* FacebookApiClient._validate_campaign_schema finds errors.
FacebookClientErrors(campaign_data) ==
    \/ \E f \in FacebookClientRequired : ~DHas(campaign_data, f)
    \/ /\ DHas(campaign_data, "daily_budget")
       /\ \/ ~IsNumeric(DGet(campaign_data, "daily_budget"))
          \/ Num(DGet(campaign_data, "daily_budget")) <= 0
    \/ /\ DHas(campaign_data, "name")
       /\ \/ DGet(campaign_data, "name").t # "str"
          \/ DGet(campaign_data, "name").v \in BlankStrings

\* The text of the ApiError _validate_campaign_schema raises.
FacebookClientErrorText == "Facebook campaign {campaign_id} has schema validation errors"

\* FacebookApiClient.get_campaign on the canned campaign_data.
FacebookChecked(campaign_data) ==
    IF FacebookClientErrors(campaign_data) THEN Fail("ApiError", FacebookClientErrorText)
    ELSE Ok(PDict(campaign_data))

FacebookGetCampaign(campaign_id) ==
    FacebookChecked(IF campaign_id = "fb-001" THEN FacebookGoodCampaign
                    ELSE FacebookBadCampaign)

\* FacebookAdapter.fetch_campaign_data, given what get_campaign did: its except
\* clause reads e.api_name, an attribute ApiError does not set, so the handler
\* itself raises AttributeError in place of the ApiError it was building.
FacebookFetched(response) ==
    IF Raised(response.exc) /\ IsInstance(response.exc, "ApiError")
    THEN Fail("AttributeError", "'ApiError' object has no attribute 'api_name'")
    ELSE response

\* adapter.fetch_campaign_data(campaign_id) of the adapter registered as adapter_key.
FetchCampaignData(adapter_key, campaign_id) ==
    IF adapter_key = "facebook" THEN FacebookFetched(FacebookGetCampaign(campaign_id))
    ELSE Ok(PDict(TwitterMockCampaign))

(***************************************************************************)
(* migrate_campaign: the override step and the except clauses.             *)
(***************************************************************************)
\* A variant of ApplyOverride that tests the value's truth in place of "is None".
ApplyOverrideTruthy(taboola_data, key, value) ==
    IF ~Truthy(value) /\ DHas(taboola_data, key) THEN DDel(taboola_data, key)
    ELSE IF Truthy(value) THEN DSet(taboola_data, key, value)
    ELSE taboola_data

\* Lines 297-300 for one item of data_override.
ApplyOverride(taboola_data, key, value) ==
    IF IsNone(value) /\ DHas(taboola_data, key) THEN DDel(taboola_data, key)
    ELSE IF ~IsNone(value) THEN DSet(taboola_data, key, value)
    ELSE taboola_data

\* Lines 296-300: the loop over data_override.items().
RECURSIVE ApplyOverrides(_, _)
ApplyOverrides(taboola_data, items) ==
    IF items = <<>> THEN taboola_data
    ELSE ApplyOverrides(ApplyOverride(taboola_data, Head(items).k, Head(items).v),
                        Tail(items))

\* Lines 295-300: "if data_override:" skips None and the empty dict.
Overridden(taboola_data, data_override) ==
    IF Truthy(data_override) THEN ApplyOverrides(taboola_data, data_override.v)
    ELSE taboola_data

\* "schema validation" in str(e).lower()
MentionsSchemaValidation(e) == e.msg = FacebookClientErrorText

\* A variant of SingleCatches without the last clause, "except Exception".
SingleCatchesApiOnly(e) == IsInstance(e, "ApiError") \/ IsInstance(e, "ApiException")

\* The except clauses of migrate_campaign catch e.
SingleCatches(e) ==
    IsInstance(e, "ApiError") \/ IsInstance(e, "ApiException") \/ IsInstance(e, "Exception")

\* The failures entry the except clause that catches e writes (lines 308-320).
SingleFailure(e, source_platform) ==
    IF IsInstance(e, "ApiError")
    THEN (IF MentionsSchemaValidation(e)
          THEN [message |-> Msg("Campaign data from {source_platform} failed validation.",
                                <<source_platform>>),
                error |-> "SchemaValidationError: {e}"]
          ELSE [message |-> Msg("{source_platform} API error: {e}", <<source_platform, e.msg>>),
                error |-> e.cls])
    ELSE IF IsInstance(e, "ApiException")
    THEN [message |-> Msg("Taboola API returned an error: {e}", <<e.msg>>), error |-> e.cls]
    ELSE [message |-> Msg("A critical error occurred during migration: {e}", <<e.msg>>),
          error |-> e.cls]

\* The report after exception e reached the except clauses.
SingleHandled(report, e, source_platform) ==
    IF SingleCatches(e)
    THEN [report EXCEPT !.failures = Append(@, SingleFailure(e, source_platform))]
    ELSE report

(***************************************************************************)
(* Bounds and inputs of the model.                                         *)
(***************************************************************************)
MaxBatch == 3

Platforms == {"facebook", "Twitter", "tiktok"}

FacebookCreative == PDict(<< KV("image_url", PStr("u")), KV("headline", PStr("h")) >>)
TweetCreative == PDict(<< KV("media_url", PStr("u")), KV("text", PStr("t")) >>)

\* A record the facebook validation schema accepts.
RecFacebook ==
    << KV("name", PStr("Promo")), KV("objective", PStr("LINK_CLICKS")),
       KV("daily_budget", PFloat(20, 0)), KV("creatives", PList(<<FacebookCreative>>)) >>
\* A record the twitter validation schema accepts.
RecTwitter ==
    << KV("name", PStr("Tweet")), KV("total_budget", PInt(5000)),
       KV("account_name", PStr("Brand")), KV("tweet_creatives", PList(<<TweetCreative>>)) >>
\* Budgets that are no numbers.
RecBadBudget ==
    << KV("name", PStr("Promo")), KV("objective", PStr("LINK_CLICKS")),
       KV("daily_budget", PStr("bad")), KV("total_budget", PStr("bad")),
       KV("account_name", PStr("Brand")) >>
\* No name, and creatives that are no lists.
RecBadCreatives ==
    << KV("objective", PStr("REACH")), KV("daily_budget", PInt(20)),
       KV("total_budget", PFloat(50, 0)), KV("account_name", PStr("Brand")),
       KV("creatives", PInt(5)), KV("tweet_creatives", PStr("x")) >>

\* Budgets beyond the floats and the integers: float() of the first and int() of the
\* second raise OverflowError.
RecOverflow ==
    << KV("name", PStr("Promo")), KV("daily_budget", PInt(FloatMax + 1)), KV("total_budget", Inf) >>

BatchRecords == {RecFacebook, RecTwitter, RecBadBudget, RecBadCreatives, RecOverflow}

CampaignIds == {"fb-001", "fb-002"}

\* data_override: None, or a dict of overrides.
Overrides ==
    { None,
      PDict(<<>>),
      PDict(<< KV("cpc_bid", None) >>),
      PDict(<< KV("cpc_bid", PFloat(0, 90)) >>),
      PDict(<< KV("name", None), KV("note", PStr("x")) >>),
      PDict(<< KV("note", None) >>),
      PDict(<< KV("branding_text", PStr("")) >>),
      PDict(<< KV("daily_cap", PInt(0)), KV("name", PStr("Renamed")) >>) }

(***************************************************************************)
(* The records the validator is run on: every combination of one option    *)
(* per key, Absent leaving the key out.                                    *)
(***************************************************************************)
Absent == [t |-> "absent", v |-> 0]
Present(pair) == pair.v.t # "absent"
MkRecord(pairs) == SelectSeq(pairs, Present)

NameOptions == {Absent, PStr("Promo"), PStr(""), PStr("  "), PInt(7)}
ObjectiveOptions == {Absent, PStr("LINK_CLICKS"), PStr("OTHER")}
BudgetOptions ==
    { Absent, PFloat(20, 0), PFloat(0, 50), PFloat(100000, 0), PInt(100001), PInt(1),
      PBool(TRUE), PStr("bad") }
TargetingOptions ==
    { Absent, PDict(<<>>), PStr("US"),
      PDict(<< KV("age_min", PInt(10)) >>),
      PDict(<< KV("geo", PStr("US")), KV("age_min", PInt(13)), KV("age_max", PInt(65)) >>),
      PDict(<< KV("geo", PStr("")), KV("interests", PStr("x")), KV("age_max", PInt(70)) >>),
      PDict(<< KV("zzz", PInt(1)) >>) }
CreativesOptions == {Absent, PList(<<>>)}
TotalBudgetOptions == {Absent, PInt(5000)}
ExtraOptions == {Absent, PStr("x")}

ValidatorRecords ==
    { MkRecord(<< KV("name", n), KV("objective", o), KV("daily_budget", b),
                  KV("targeting", t), KV("creatives", c), KV("total_budget", tb),
                  KV("extra", x) >>) :
        n \in NameOptions, o \in ObjectiveOptions, b \in BudgetOptions,
        t \in TargetingOptions, c \in CreativesOptions, tb \in TotalBudgetOptions,
        x \in ExtraOptions }

ValidatorPlatforms == {"facebook", "twitter", "tiktok"}

MaxIndex == 1

\* The batches validate_campaign_data is run on: up to MaxValidated records.
MaxValidated == 3
EmptyRecord == <<>>
ValidatedRecords == {RecFacebook, RecTwitter, RecBadBudget, RecBadCreatives, EmptyRecord}

(***************************************************************************)
(* The field definitions and values _validate_field_value is run on: one   *)
(* definition per FieldType at least, one value per Python type at least.  *)
(***************************************************************************)
\* A nested schema with a field for each check, and a nested object of its own.
SettingsSchema ==
    << FieldDefinition("mode", "string", TRUE, None, None, << PStr("auto"), PStr("manual") >>,
                       <<>>),
       FieldDefinition("label", "string", FALSE, None, None, <<>>, <<>>),
       FieldDefinition("slots", "integer", FALSE, PInt(13), PInt(65),
                       << PInt(13), PInt(18), PInt(70) >>, <<>>),
       FieldDefinition("targeting", "object", FALSE, None, None, <<>>,
                       FacebookTargetingSchema) >>

FieldDefs ==
    { FieldDefinition("name", "string", TRUE, None, None, <<>>, <<>>),
      FieldDefinition("objective", "string", TRUE, None, None,
                      << PStr("LINK_CLICKS"), PStr("REACH") >>, <<>>),
      FieldDefinition("daily_budget", "number", TRUE, PFloat(1, 0), PFloat(100000, 0),
                      <<>>, <<>>),
      FieldDefinition("total_budget", "number", TRUE, PFloat(1, 0), None, <<>>, <<>>),
      FieldDefinition("age_min", "integer", FALSE, PInt(13), PInt(65), <<>>, <<>>),
      FieldDefinition("slots", "integer", FALSE, PInt(13), PInt(65),
                      << PInt(13), PInt(18), PInt(70) >>, <<>>),
      FieldDefinition("active", "boolean", FALSE, None, None, <<>>, <<>>),
      FieldDefinition("targeting", "object", FALSE, None, None, <<>>,
                      FacebookTargetingSchema),
      FieldDefinition("options", "object", FALSE, None, None, <<>>, <<>>),
      FieldDefinition("settings", "object", FALSE, None, None, <<>>, SettingsSchema),
      FieldDefinition("creatives", "array", FALSE, None, None, <<>>, <<>>) }

FieldValues ==
    { None, PStr("Promo"), PStr("LINK_CLICKS"), PStr(""), PStr("  "),
      PInt(0), PInt(1), PInt(10), PInt(13), PInt(18), PInt(65), PInt(70),
      PFloat(0, 50), PFloat(1, 0), PFloat(13, 50), PFloat(100000, 0), PFloat(100000, 50),
      PBool(TRUE), PBool(FALSE),
      PDict(<<>>), PDict(<< KV("age_min", PInt(10)), KV("geo", PInt(5)) >>),
      PDict(<< KV("age_min", PInt(13)), KV("age_max", PInt(65)) >>),
      PDict(<< KV("mode", PStr("turbo")), KV("label", PStr("  ")), KV("slots", PInt(70)),
               KV("targeting", PDict(<< KV("age_min", PInt(10)), KV("geo", PStr("")) >>)),
               KV("extra", PInt(1)) >>),
      PDict(<< KV("mode", PStr("auto")), KV("label", PStr("Promo")), KV("slots", PInt(13)),
               KV("targeting", PStr("all")) >>),
      PList(<<>>), PList(<< PStr("sports") >>) }

(***************************************************************************)
(* The inputs of map_to_taboola: source records and loadable schemas.      *)
(***************************************************************************)
SrcPromo == << KV("title", PStr("Promo")), KV("daily_budget", PInt(2000)) >>
SrcBad == << KV("title", PStr("Promo")), KV("daily_budget", PStr("bad")) >>
SrcTitleOnly == << KV("title", PStr("Promo")) >>
SrcStrings ==
    << KV("title", PStr("Promo")), KV("daily_budget", PStr("12")), KV("cpc", PStr("20.5")),
       KV("creatives", PList(<<FacebookCreative>>)) >>

\* Numbers beyond the integers and the floats, as json.loads reads them.
SrcInf ==
    << KV("title", PStr("Promo")), KV("daily_budget", Inf), KV("cpc", Inf) >>
SrcHuge ==
    << KV("title", PStr("Promo")), KV("daily_budget", PInt(FloatMax + 1)), KV("cpc", PInt(FloatMax + 1)) >>

MapSources ==
    {SrcPromo, SrcBad, SrcTitleOnly, SrcStrings, SrcInf, SrcHuge, RecFacebook, RecTwitter, RecBadBudget,
     RecBadCreatives, EmptyRecord}

\* name from title, the budget a float divided by 100, nothing else configured.
ScenarioSchema ==
    PlatformSchema(
        MappingRule("title", None, "string", "", ""),
        MappingRule("daily_budget", None, "float", "divide_by_100", ""),
        MappingRule("", None, "string", "", ""),
        MappingRule("", None, "string", "", ""),
        MappingRule("", None, "string", "", ""))

\* Every rule carries a static warning of its own.
WarningSchema ==
    PlatformSchema(
        MappingRule("title", None, "string", "", "Name copied"),
        MappingRule("daily_budget", PFloat(10, 0), "float", "", "Budget read as float"),
        MappingRule("", PStr("Brand"), "string", "", "Branding text defaulted"),
        MappingRule("cpc", None, "integer", "", "CPC bid truncated"),
        MappingRule("creatives", PStr("none"), "string", "extract_creative_data",
                    "Creatives extracted"))

\* Every rule with a transform has a default.
DefaultSchema ==
    PlatformSchema(
        MappingRule("title", PStr("Untitled"), "string", "", ""),
        MappingRule("total_budget", PFloat(5, 0), "float", "divide_by_100", ""),
        MappingRule("account_name", PStr("Brand"), "boolean", "", ""),
        MappingRule("cpc", PInt(1), "integer", "", ""),
        MappingRule("tweet_creatives", PStr("none"), "string",
                    "extract_tweet_creative_data", ""))

\* The number of calls of map_to_taboola with the same arguments.
MaxCalls == 2

MapSchemas ==
    {ScenarioSchema, WarningSchema, DefaultSchema, FacebookMapping, TwitterMapping,
     FacebookMappingAlt, TwitterMappingAlt}

(***************************************************************************)
(* The inputs of the wrappers: what the wrapped functions do when called.  *)
(***************************************************************************)
MaxAttempts == 3

CallOutcomes ==
    { Ok(PStr("Success")), Ok(PStr("Fallback result")), Ok(None),
      Fail("ConnectionError", "Simulated failure 1"),
      Fail("ConnectionError", "Simulated failure 2"),
      Fail("RuntimeError", "Main function always fails"),
      Fail("ValidationError", "Invalid input"),
      Fail("ApiError", "Service unavailable") }

SeqsUpTo(S, n) == UNION {[1..k -> S] : k \in 0..n}

\* The issues the structural validator finds in a record of a batch for a platform.
\* PlatformSchema(platform) takes the name as it is given: only the adapter lookup
\* lower-cases it.
StructuralIssues(platform, campaign, campaign_index) ==
    ValidateSingleCampaign(campaign, LoadPlatformSchema(platform), campaign_index)

VARIABLES
    adapters,    \* MigrationModule.adapters: platform -> the adapter's mapping schema
    bpc,         \* migrate_campaigns_from_file: "idle", "loop", "returned" or "raised"
    bPlatform,   \* its source_platform
    bFileData,   \* its file_data
    bIdx,        \* the loop variable i: the records before position bIdx are done
    bReport,     \* its MigrationReport
    bLog,        \* what each pass of the loop did, in order
    spc,         \* migrate_campaign: "idle", the stage to run next, "returned" or "raised"
    sPlatform,   \* its source_platform
    sCampaignId, \* its campaign_id
    sOverride,   \* its data_override
    sSource,     \* source_data
    sMapped,     \* taboola_data as map_to_taboola returned it
    sTaboola,    \* taboola_data
    sWarnings,   \* warnings
    sReport,     \* its MigrationReport
    sStages,     \* the stages run so far, in order
    sUploaded,   \* the records handed to create_campaign, in order
    vpc,         \* _validate_single_campaign: "idle", "ready" or "done"
    vPlatform,   \* the platform of its schema
    vCampaign,   \* its campaign
    vIndex,      \* its campaign_index
    vIssues,     \* the issues it returned
    fpc,         \* _validate_field_value: "idle", "ready" or "done"
    fDef,        \* its field_def
    fValue,      \* its value
    fIndex,      \* its campaign_index
    fIssues,     \* the issues it returned
    cpc,         \* validate_campaign_data: "idle", "loop", "returned" or "raised"
    cPlatform,   \* its platform
    cCampaigns,  \* its campaigns
    cIdx,        \* the loop variable i of validate_campaigns_against_schema
    cPartition,  \* valid_campaigns and all_issues of validate_campaigns_against_schema
    cResult,     \* what validate_campaign_data returned, or the exception it raised
    mpc,         \* map_to_taboola: "idle", "loop", "returned" or "raised"
    mSource,     \* its source_data
    mSchema,     \* self.schema, in the order of schema_dict.items()
    mK,          \* the number of target fields the loop has processed
    mAcc,        \* taboola_campaign, warnings, the report's warnings, the exception
    mPrev,       \* the earlier calls with the same arguments: how each ended
    nCalls,      \* the invocations of migrate_campaign(s_from_file) begun on the module
    rpc,         \* the wrapper of with_retry: "idle", "loop", "returned" or "raised"
    rMax,        \* retry_config.max_attempts
    rPlan,       \* what func does on its 1st, 2nd, ... call
    rCalls,      \* the calls of func made so far: what each did
    rLast,       \* last_exception
    rEnd,        \* what the wrapper returned, or the exception it raised
    wpc,         \* the wrapper of with_fallback: "idle", "main", "fallback", "returned", "raised"
    wMain,       \* what func does when called
    wFallback,   \* what fallback_func does when called
    wCalls,      \* the functions called so far, in order
    wError,      \* e, the exception of func
    wEnd         \* what the wrapper returned, or the exception it raised

batchVars == <<bpc, bPlatform, bFileData, bIdx, bReport, bLog>>
singleVars ==
    <<spc, sPlatform, sCampaignId, sOverride, sSource, sMapped, sTaboola, sWarnings,
      sReport, sStages, sUploaded>>
validateVars == <<vpc, vPlatform, vCampaign, vIndex, vIssues>>
fieldVars == <<fpc, fDef, fValue, fIndex, fIssues>>
dataVars == <<cpc, cPlatform, cCampaigns, cIdx, cPartition, cResult>>
mapVars == <<mpc, mSource, mSchema, mK, mAcc, mPrev>>
sessionVars == <<nCalls>>
retryVars == <<rpc, rMax, rPlan, rCalls, rLast, rEnd>>
fallbackVars == <<wpc, wMain, wFallback, wCalls, wError, wEnd>>
recoveryVars == <<retryVars, fallbackVars>>
restVars == <<fieldVars, dataVars, mapVars, sessionVars, recoveryVars>>
vars == <<adapters, batchVars, singleVars, validateVars, restVars>>

BatchIdle ==
    /\ bpc = "idle" /\ bPlatform = "" /\ bFileData = <<>> /\ bIdx = 0
    /\ bReport = EmptyReport /\ bLog = <<>>

SingleIdle ==
    /\ spc = "idle" /\ sPlatform = "" /\ sCampaignId = "" /\ sOverride = None
    /\ sSource = <<>> /\ sMapped = <<>> /\ sTaboola = <<>> /\ sWarnings = <<>>
    /\ sReport = EmptyReport /\ sStages = <<>> /\ sUploaded = <<>>

ValidateIdle ==
    /\ vpc = "idle" /\ vPlatform = "" /\ vCampaign = <<>> /\ vIndex = 0 /\ vIssues = <<>>

FieldIdle ==
    /\ fpc = "idle" /\ fDef = <<>> /\ fValue = None /\ fIndex = 0 /\ fIssues = <<>>

NoResult == [exc |-> NoExc, validated |-> <<>>, has_issues |-> FALSE, schema_comparison |-> <<>>]

DataIdle ==
    /\ cpc = "idle" /\ cPlatform = "" /\ cCampaigns = <<>> /\ cIdx = 0
    /\ cPartition = EmptyPartition /\ cResult = NoResult

MapIdle ==
    /\ mpc = "idle" /\ mSource = <<>> /\ mSchema = <<>> /\ mK = 0 /\ mAcc = MapStart
    /\ mPrev = <<>>

SessionIdle == nCalls = 0

RetryIdle ==
    /\ rpc = "idle" /\ rMax = 0 /\ rPlan = <<>> /\ rCalls = <<>> /\ rLast = NoExc
    /\ rEnd = Ok(None)
FallbackIdle ==
    /\ wpc = "idle" /\ wMain = Ok(None) /\ wFallback = Ok(None) /\ wCalls = <<>>
    /\ wError = NoExc /\ wEnd = Ok(None)
RecoveryIdle == RetryIdle /\ FallbackIdle

RestIdle == FieldIdle /\ DataIdle /\ MapIdle /\ SessionIdle /\ RecoveryIdle

(***************************************************************************)
(* migrate_campaigns_from_file                                             *)
(***************************************************************************)
\* A variant of BatchStart that reports an unsupported platform once per record.
BatchStartPerRecord ==
    /\ bpc = "idle"
    /\ \E platform \in Platforms, file_data \in SeqsUpTo(BatchRecords, MaxBatch) :
          /\ bPlatform' = platform
          /\ bFileData' = file_data
          /\ IF HasAdapter(platform)
             THEN bpc' = "loop" /\ bReport' = EmptyReport
             ELSE /\ bpc' = "returned"
                  /\ bReport' =
                        [EmptyReport EXCEPT !.failures =
                            [i \in 1..Len(file_data) |->
                                [message |->
                                    Msg("Migration from '{source_platform}' is not supported.",
                                        <<platform>>),
                                 error |-> "AdapterNotFound"]]]
    /\ bIdx' = 0
    /\ bLog' = <<>>
    /\ UNCHANGED <<adapters, singleVars, validateVars, restVars>>

\* Lines 248-254: the report is created and the adapter looked up.
BatchBegin ==
    /\ \E platform \in Platforms, file_data \in SeqsUpTo(BatchRecords, MaxBatch) :
          /\ bPlatform' = platform
          /\ bFileData' = file_data
          /\ IF HasAdapter(platform)
             THEN bpc' = "loop" /\ bReport' = EmptyReport
             ELSE /\ bpc' = "returned"
                  /\ bReport' = AddFailure(EmptyReport,
                                    Msg("Migration from '{source_platform}' is not supported.",
                                        <<platform>>), "AdapterNotFound")
    /\ bIdx' = 0
    /\ bLog' = <<>>

BatchStart ==
    /\ bpc = "idle"
    /\ BatchBegin
    /\ UNCHANGED <<adapters, singleVars, validateVars, restVars>>

\* The entry of bLog for a pass of the loop.
BatchLogEntry(out, campaign_data) ==
    [index |-> bIdx,
     handled |-> out.handled,
     map_exc |-> out.map_exc,
     upload_called |-> out.upload_called,
     upload_rejected |-> out.upload_rejected,
     migrated |-> out.migrated,
     n_successes |-> Len(out.report.successes) - Len(bReport.successes),
     n_failures |-> Len(out.report.failures) - Len(bReport.failures),
     n_issues |-> Len(StructuralIssues(bPlatform, campaign_data, bIdx))]

BatchRecordDone(out, campaign_data) ==
    /\ bReport' = out.report
    /\ bLog' = Append(bLog, BatchLogEntry(out, campaign_data))
    /\ bpc' = CASE out.handled = "batch_failure" -> "returned"
                [] out.handled = "raise" -> "raised"
                [] OTHER -> "loop"
    /\ bIdx' = IF out.handled \in {"batch_failure", "raise"} THEN bIdx ELSE bIdx + 1

\* Lines 258-278: one pass of the loop, for the record at position bIdx.
BatchRecord ==
    /\ bpc = "loop"
    /\ bIdx < Len(bFileData)
    /\ \E fault \in ClientFaults :
          BatchRecordDone(BatchProcessRecord(bReport, bIdx, bFileData[bIdx + 1],
                                             adapters[Lower(bPlatform)], fault),
                          bFileData[bIdx + 1])
    /\ UNCHANGED <<adapters, bPlatform, bFileData, singleVars, validateVars, restVars>>

\* Lines 280-281: the loop is over and the report returned.
BatchFinish ==
    /\ bpc = "loop"
    /\ bIdx = Len(bFileData)
    /\ bpc' = "returned"
    /\ UNCHANGED <<bPlatform, bFileData, bIdx, bReport, bLog>>
    /\ UNCHANGED <<adapters, singleVars, validateVars, restVars>>

InitBatch ==
    adapters \in AdapterConfigs /\ BatchIdle /\ SingleIdle /\ ValidateIdle /\ RestIdle
NextBatch == BatchStart \/ BatchRecord \/ BatchFinish
SpecBatch == InitBatch /\ [][NextBatch]_vars

(***************************************************************************)
(* migrate_campaign                                                        *)
(***************************************************************************)
\* Lines 284-289: the report is created and the adapter looked up.
SingleBegin ==
    /\ \E platform \in Platforms, campaign_id \in CampaignIds, data_override \in Overrides :
          /\ sPlatform' = platform
          /\ sCampaignId' = campaign_id
          /\ sOverride' = data_override
          /\ IF HasAdapter(platform)
             THEN spc' = "fetch" /\ sReport' = EmptyReport
             ELSE /\ spc' = "returned"
                  /\ sReport' = AddFailure(EmptyReport,
                                    Msg("Migration from '{source_platform}' is not supported.",
                                        <<platform>>), "AdapterNotFound")

SingleStart ==
    /\ spc = "idle"
    /\ SingleBegin
    /\ UNCHANGED <<sSource, sMapped, sTaboola, sWarnings, sStages, sUploaded>>
    /\ UNCHANGED <<adapters, batchVars, validateVars, restVars>>

\* An exception e left the try block: the except clauses, then the return.
SingleFailed(report, e) ==
    /\ sReport' = SingleHandled(report, e, sPlatform)
    /\ spc' = IF SingleCatches(e) THEN "returned" ELSE "raised"

SingleFetched(fetched) ==
    IF Raised(fetched.exc)
    THEN SingleFailed(sReport, fetched.exc) /\ UNCHANGED sSource
    ELSE /\ sSource' = fetched.val.v
         /\ sReport' = AddSuccess(sReport,
                           Msg("Successfully fetched data for campaign '{campaign_id}'.",
                               <<sCampaignId>>))
         /\ spc' = "map"

\* Lines 291-292: fetch.
SingleFetch ==
    /\ spc = "fetch"
    /\ SingleFetched(FetchCampaignData(Lower(sPlatform), sCampaignId))
    /\ sStages' = Append(sStages, "fetch")
    /\ UNCHANGED <<sPlatform, sCampaignId, sOverride, sMapped, sTaboola, sWarnings, sUploaded>>
    /\ UNCHANGED <<adapters, batchVars, validateVars, restVars>>

SingleMapped(m) ==
    IF Raised(m.exc)
    THEN /\ SingleFailed(AddWarnings(sReport, m.report_warnings), m.exc)
         /\ UNCHANGED <<sMapped, sTaboola, sWarnings>>
    ELSE /\ sReport' = AddWarnings(sReport, m.report_warnings)
         /\ sMapped' = m.data
         /\ sTaboola' = m.data
         /\ sWarnings' = m.warnings
         /\ spc' = "override"

\* Line 294: map.
SingleMap ==
    /\ spc = "map"
    /\ SingleMapped(MapToTaboola(sSource, adapters[Lower(sPlatform)]))
    /\ sStages' = Append(sStages, "map")
    /\ UNCHANGED <<sPlatform, sCampaignId, sOverride, sSource, sUploaded>>
    /\ UNCHANGED <<adapters, batchVars, validateVars, restVars>>

\* Lines 295-304: the overrides, then the mapper's success and warnings reported.
SingleOverride ==
    /\ spc = "override"
    /\ sTaboola' = Overridden(sTaboola, sOverride)
    /\ sReport' = AddWarnings(AddSuccess(sReport,
                                  Msg("Successfully mapped fields to Taboola format.", <<>>)),
                              sWarnings)
    /\ spc' = "upload"
    /\ sStages' = Append(sStages, "override")
    /\ UNCHANGED <<sPlatform, sCampaignId, sOverride, sSource, sMapped, sWarnings, sUploaded>>
    /\ UNCHANGED <<adapters, batchVars, validateVars, restVars>>

SingleUploadDone(u) ==
    IF Raised(u.exc) THEN SingleFailed(u.report, u.exc)
    ELSE sReport' = u.report /\ spc' = "returned"

\* Line 306: upload.
SingleUpload ==
    /\ spc = "upload"
    /\ \E fault \in ClientFaults : SingleUploadDone(UploadToTaboola(sTaboola, sReport, fault))
    /\ sUploaded' = Append(sUploaded, sTaboola)
    /\ sStages' = Append(sStages, "upload")
    /\ UNCHANGED <<sPlatform, sCampaignId, sOverride, sSource, sMapped, sTaboola, sWarnings>>
    /\ UNCHANGED <<adapters, batchVars, validateVars, restVars>>

InitSingle == InitBatch
NextSingle == SingleStart \/ SingleFetch \/ SingleMap \/ SingleOverride \/ SingleUpload
SpecSingle == InitSingle /\ [][NextSingle]_vars

(***************************************************************************)
(* _validate_single_campaign on one record                                 *)
(***************************************************************************)
ValidateSingle ==
    /\ vpc = "ready"
    /\ vIssues' = ValidateSingleCampaign(vCampaign, LoadPlatformSchema(vPlatform), vIndex)
    /\ vpc' = "done"
    /\ UNCHANGED <<vPlatform, vCampaign, vIndex>>
    /\ UNCHANGED <<adapters, batchVars, singleVars, restVars>>

InitValidate ==
    /\ adapters \in AdapterConfigs /\ BatchIdle /\ SingleIdle /\ RestIdle
    /\ vpc = "ready"
    /\ vPlatform \in ValidatorPlatforms
    /\ vCampaign \in ValidatorRecords
    /\ vIndex \in 0..MaxIndex
    /\ vIssues = <<>>
NextValidate == ValidateSingle
SpecValidate == InitValidate /\ [][NextValidate]_vars
(***************************************************************************)
(* _validate_field_value on one value                                      *)
(***************************************************************************)
ValidateField ==
    /\ fpc = "ready"
    /\ fIssues' = ValidateFieldValue(fValue, fDef, fIndex, <<fDef.name>>)
    /\ fpc' = "done"
    /\ UNCHANGED <<fDef, fValue, fIndex>>
    /\ UNCHANGED <<adapters, batchVars, singleVars, validateVars, dataVars, mapVars, sessionVars, recoveryVars>>

InitField ==
    /\ adapters \in AdapterConfigs /\ BatchIdle /\ SingleIdle /\ ValidateIdle /\ DataIdle
    /\ MapIdle /\ SessionIdle /\ RecoveryIdle
    /\ fpc = "ready"
    /\ fDef \in FieldDefs
    /\ fValue \in FieldValues
    /\ fIndex \in 0..MaxIndex
    /\ fIssues = <<>>
NextField == ValidateField
SpecField == InitField /\ [][NextField]_vars

(***************************************************************************)
(* validate_campaign_data, with validate_campaigns_against_schema in it    *)
(***************************************************************************)
\* file_processor.py line 175 and schema_validator.py lines 136-138: the schema
\* of the platform is built and the two lists are empty.
DataStart ==
    /\ cpc = "idle"
    /\ \E platform \in ValidatorPlatforms,
          campaigns \in SeqsUpTo(ValidatedRecords, MaxValidated) :
          cPlatform' = platform /\ cCampaigns' = campaigns
    /\ cpc' = "loop"
    /\ UNCHANGED <<cIdx, cPartition, cResult>>
    /\ UNCHANGED <<adapters, batchVars, singleVars, validateVars, fieldVars, mapVars, sessionVars, recoveryVars>>

\* schema_validator.py lines 140-146: one pass of the loop.
DataRecord ==
    /\ cpc = "loop"
    /\ cIdx < Len(cCampaigns)
    /\ cPartition' = PartitionStep(cPartition, cCampaigns[cIdx + 1],
                                   ValidateSingleCampaign(cCampaigns[cIdx + 1],
                                                          LoadPlatformSchema(cPlatform),
                                                          cIdx))
    /\ cIdx' = cIdx + 1
    /\ UNCHANGED <<cpc, cPlatform, cCampaigns, cResult>>
    /\ UNCHANGED <<adapters, batchVars, singleVars, validateVars, fieldVars, mapVars, sessionVars, recoveryVars>>

DataDone(result) ==
    /\ cResult' = result
    /\ cpc' = IF Raised(result.exc) THEN "raised" ELSE "returned"

\* schema_validator.py line 149 and file_processor.py lines 177-201: the lists
\* are returned and validate_campaign_data returns or raises.
DataFinish ==
    /\ cpc = "loop"
    /\ cIdx = Len(cCampaigns)
    /\ DataDone(ValidateCampaignData(cPartition.valid, cPartition.issues, cCampaigns,
                                     cPlatform))
    /\ UNCHANGED <<cPlatform, cCampaigns, cIdx, cPartition>>
    /\ UNCHANGED <<adapters, batchVars, singleVars, validateVars, fieldVars, mapVars, sessionVars, recoveryVars>>

InitData ==
    /\ adapters \in AdapterConfigs /\ BatchIdle /\ SingleIdle /\ ValidateIdle
    /\ FieldIdle /\ DataIdle /\ MapIdle /\ SessionIdle /\ RecoveryIdle
NextData == DataStart \/ DataRecord \/ DataFinish
SpecData == InitData /\ [][NextData]_vars

(***************************************************************************)
(* map_to_taboola, one pass of its loop at a time                          *)
(***************************************************************************)
\* Lines 100-133: the body of the loop for the next target field.  An exception
\* of the transform leaves the loop; a failed coercion does not.
MapStep ==
    /\ mpc = "loop"
    /\ mK < Len(mSchema)
    /\ ~Raised(mAcc.exc)
    /\ mAcc' = MapField(mSource, mSchema[mK + 1].field, mSchema[mK + 1].rule, mAcc)
    /\ mK' = mK + 1
    /\ UNCHANGED <<mpc, mSource, mSchema, mPrev>>
    /\ UNCHANGED <<adapters, batchVars, singleVars, validateVars, fieldVars, dataVars, sessionVars, recoveryVars>>

\* Line 135: taboola_campaign and warnings are returned.
MapReturn ==
    /\ mpc = "loop"
    /\ mK = Len(mSchema)
    /\ ~Raised(mAcc.exc)
    /\ mpc' = "returned"
    /\ UNCHANGED <<mSource, mSchema, mK, mAcc, mPrev>>
    /\ UNCHANGED <<adapters, batchVars, singleVars, validateVars, fieldVars, dataVars, sessionVars, recoveryVars>>

\* Line 112 is outside the try of lines 115-125: what a transform raises leaves
\* map_to_taboola.
MapRaise ==
    /\ mpc = "loop"
    /\ Raised(mAcc.exc)
    /\ mpc' = "raised"
    /\ UNCHANGED <<mSource, mSchema, mK, mAcc, mPrev>>
    /\ UNCHANGED <<adapters, batchVars, singleVars, validateVars, fieldVars, dataVars, sessionVars, recoveryVars>>

\* The caller calls map_to_taboola again on the same adapter with the same
\* source_data object: lines 95-96 start from new empty containers.
MapAgain ==
    /\ mpc \in {"returned", "raised"}
    /\ Len(mPrev) < MaxCalls - 1
    /\ mPrev' = Append(mPrev, [pc |-> mpc, acc |-> mAcc, source |-> mSource])
    /\ mpc' = "loop"
    /\ mK' = 0
    /\ mAcc' = MapStart
    /\ UNCHANGED <<mSource, mSchema>>
    /\ UNCHANGED <<adapters, batchVars, singleVars, validateVars, fieldVars, dataVars, sessionVars, recoveryVars>>

InitMap ==
    /\ adapters \in AdapterConfigs /\ BatchIdle /\ SingleIdle /\ ValidateIdle
    /\ FieldIdle /\ DataIdle /\ SessionIdle /\ RecoveryIdle
    /\ mpc = "loop"
    /\ mSource \in MapSources
    /\ mSchema \in MapSchemas
    /\ mK = 0
    /\ mAcc = MapStart
    /\ mPrev = <<>>
NextMap == MapStep \/ MapReturn \/ MapRaise \/ MapAgain
SpecMap == InitMap /\ [][NextMap]_vars

(***************************************************************************)
(* The wrapper of with_retry, one attempt at a time                        *)
(***************************************************************************)
\* Lines 184-204: func has been called and did "out".
RetryAttempted(out) ==
    /\ rCalls' = Append(rCalls, out)
    /\ IF ~Raised(out.exc)
       THEN rpc' = "returned" /\ rEnd' = Ok(out.val) /\ UNCHANGED rLast
       ELSE /\ rLast' = out.exc
            /\ IF NotRetried(out.exc)
               THEN rpc' = "raised" /\ rEnd' = [exc |-> out.exc, val |-> None]
               ELSE UNCHANGED <<rpc, rEnd>>

\* One pass of "for attempt in range(max_attempts)"; the sleep before the next
\* pass changes nothing.
RetryAttempt ==
    /\ rpc = "loop"
    /\ Len(rCalls) < rMax
    /\ RetryAttempted(rPlan[Len(rCalls) + 1])
    /\ UNCHANGED <<rMax, rPlan>>
    /\ UNCHANGED <<adapters, batchVars, singleVars, validateVars, fieldVars, dataVars,
                   mapVars, sessionVars, fallbackVars>>

\* Lines 208-209: the loop is over without a return.
RetryExhausted ==
    /\ rpc = "loop"
    /\ Len(rCalls) >= rMax
    /\ rpc' = "raised"
    /\ rEnd' = [exc |-> RaiseLast(rLast), val |-> None]
    /\ UNCHANGED <<rMax, rPlan, rCalls, rLast>>
    /\ UNCHANGED <<adapters, batchVars, singleVars, validateVars, fieldVars, dataVars,
                   mapVars, sessionVars, fallbackVars>>

InitRetry ==
    /\ adapters \in AdapterConfigs /\ BatchIdle /\ SingleIdle /\ ValidateIdle
    /\ FieldIdle /\ DataIdle /\ MapIdle /\ SessionIdle /\ FallbackIdle
    /\ rpc = "loop"
    /\ rMax \in 0..MaxAttempts
    /\ rPlan \in [1..MaxAttempts -> CallOutcomes]
    /\ rCalls = <<>>
    /\ rLast = NoExc
    /\ rEnd = Ok(None)
NextRetry == RetryAttempt \/ RetryExhausted
SpecRetry == InitRetry /\ [][NextRetry]_vars

(***************************************************************************)
(* The wrapper of with_fallback                                            *)
(***************************************************************************)
\* Lines 224-227: func is called.
FallbackMain ==
    /\ wpc = "main"
    /\ wCalls' = Append(wCalls, "func")
    /\ IF ~Raised(wMain.exc)
       THEN wpc' = "returned" /\ wEnd' = Ok(wMain.val) /\ UNCHANGED wError
       ELSE wpc' = "fallback" /\ wError' = wMain.exc /\ UNCHANGED wEnd
    /\ UNCHANGED <<wMain, wFallback>>
    /\ UNCHANGED <<adapters, batchVars, singleVars, validateVars, fieldVars, dataVars,
                   mapVars, sessionVars, retryVars>>

\* Lines 228-232: fallback_func is called.
FallbackCall ==
    /\ wpc = "fallback"
    /\ wCalls' = Append(wCalls, "fallback_func")
    /\ IF ~Raised(wFallback.exc)
       THEN wpc' = "returned" /\ wEnd' = Ok(wFallback.val)
       ELSE /\ wpc' = "raised"
            /\ wEnd' = [exc |-> OriginalErrorRaised(wError, wFallback.exc), val |-> None]
    /\ UNCHANGED <<wMain, wFallback, wError>>
    /\ UNCHANGED <<adapters, batchVars, singleVars, validateVars, fieldVars, dataVars,
                   mapVars, sessionVars, retryVars>>

InitFallback ==
    /\ adapters \in AdapterConfigs /\ BatchIdle /\ SingleIdle /\ ValidateIdle
    /\ FieldIdle /\ DataIdle /\ MapIdle /\ SessionIdle /\ RetryIdle
    /\ wpc = "main"
    /\ wMain \in CallOutcomes
    /\ wFallback \in CallOutcomes
    /\ wCalls = <<>>
    /\ wError = NoExc
    /\ wEnd = Ok(None)
NextFallback == FallbackMain \/ FallbackCall
SpecFallback == InitFallback /\ [][NextFallback]_vars

(***************************************************************************)
(* One call at a time on a MigrationModule: a batch or a single record.    *)
(***************************************************************************)
InitMigrate == InitBatch
NextMigrate == (SingleIdle /\ NextBatch) \/ (BatchIdle /\ NextSingle)
SpecMigrate == InitMigrate /\ [][NextMigrate]_vars

(***************************************************************************)
(* Invocation after invocation on one MigrationModule.  A call begins when *)
(* no call is running; the locals of the calls that ended are gone, and    *)
(* the variable "report" of the method called is bound anew.               *)
(***************************************************************************)
NoCallRunning ==
    bpc \in {"idle", "returned", "raised"} /\ spc \in {"idle", "returned", "raised"}

\* The locals of a call that ended.
SingleLocalsGone ==
    /\ sSource' = <<>> /\ sMapped' = <<>> /\ sTaboola' = <<>> /\ sWarnings' = <<>>
    /\ sStages' = <<>> /\ sUploaded' = <<>>
SingleGone ==
    /\ spc' = "idle" /\ sPlatform' = "" /\ sCampaignId' = "" /\ sOverride' = None
    /\ sReport' = EmptyReport
    /\ SingleLocalsGone
BatchGone ==
    /\ bpc' = "idle" /\ bPlatform' = "" /\ bFileData' = <<>> /\ bIdx' = 0
    /\ bReport' = EmptyReport /\ bLog' = <<>>

BatchCall ==
    /\ NoCallRunning
    /\ nCalls < MaxCalls
    /\ nCalls' = nCalls + 1
    /\ BatchBegin
    /\ SingleGone
    /\ UNCHANGED <<adapters, validateVars, fieldVars, dataVars, mapVars, recoveryVars>>

SingleCall ==
    /\ NoCallRunning
    /\ nCalls < MaxCalls
    /\ nCalls' = nCalls + 1
    /\ SingleBegin
    /\ SingleLocalsGone
    /\ BatchGone
    /\ UNCHANGED <<adapters, validateVars, fieldVars, dataVars, mapVars, recoveryVars>>

InitSession == InitBatch
NextSession ==
    \/ BatchCall \/ BatchRecord \/ BatchFinish
    \/ SingleCall \/ SingleFetch \/ SingleMap \/ SingleOverride \/ SingleUpload
SpecSession == InitSession /\ [][NextSession]_vars

(***************************************************************************)
(* Properties of migrate_campaigns_from_file.                              *)
(***************************************************************************)
BatchPositions == 1..Len(bLog)
BatchReturned == bpc = "returned" /\ HasAdapter(bPlatform)

\* The passes of the loop whose upload the target rejected, those that mapped and
\* uploaded cleanly, and those the report says were migrated.
RejectedRecords == {i \in BatchPositions : bLog[i].upload_rejected}
CleanRecords ==
    {i \in BatchPositions :
        bLog[i].map_exc = "" /\ bLog[i].handled = "" /\ ~bLog[i].upload_rejected}
MigratedRecords == {i \in BatchPositions : bLog[i].migrated}

\* C1: on a supported platform every record of the batch gets its pass of the loop,
\* in order, whatever happened to the records before it: the pass maps the record
\* and, when mapping succeeded, uploads it; once the call has returned there is one
\* pass per record.
C1_NoRecordFailureAbortsLoop ==
    HasAdapter(bPlatform) =>
        /\ bpc = "loop" => Len(bLog) = bIdx
        /\ bpc = "returned" => Len(bLog) = Len(bFileData)
        /\ \A i \in BatchPositions :
              /\ bLog[i].index = i - 1
              /\ bLog[i].map_exc = "" => bLog[i].upload_called

\* A batch of three whose first record failed in mapping and whose second was
\* rejected at upload, and whose third was uploaded all the same.
C1_Witness ==
    /\ BatchReturned
    /\ Len(bLog) = 3
    /\ bLog[1].map_exc # ""
    /\ bLog[2].upload_rejected
    /\ bLog[3].upload_called

\* C2: when exactly one record of a batch on a supported platform is rejected at
\* upload and every other record maps and uploads cleanly, the returned report has
\* exactly one failure, all records but one are reported as migrated, and every
\* record got its pass.
C2_OneRejectionOneFailure ==
    (/\ BatchReturned
     /\ Cardinality(RejectedRecords) = 1
     /\ RejectedRecords \cup CleanRecords = 1..Len(bFileData))
    => /\ Len(bReport.failures) = 1
       /\ Cardinality(MigratedRecords) = Len(bFileData) - 1

\* C3: a pass of the loop leaves one terminal outcome: a record whose upload the
\* target rejected has one failure and is not reported as migrated, and a record
\* reported as migrated has no failure.
C3_RejectedIsNotMigrated ==
    \A i \in BatchPositions :
        /\ bLog[i].upload_rejected => (bLog[i].n_failures = 1 /\ ~bLog[i].migrated)
        /\ bLog[i].migrated => bLog[i].n_failures = 0

\* C4: on a supported platform the call never ends with an exception reaching the
\* caller; when it has returned, every record had its pass and each mapping or
\* upload failure was turned into a failure of that record in the report.
C4_BatchReturnsReport ==
    HasAdapter(bPlatform) =>
        /\ bpc \in {"loop", "returned"}
        /\ \A i \in BatchPositions : bLog[i].handled \in {"", "record_failure"}
        /\ bpc = "returned" =>
              /\ Len(bLog) = Len(bFileData)
              /\ \A i \in BatchPositions :
                    (bLog[i].map_exc # "" \/ bLog[i].upload_rejected)
                        => bLog[i].n_failures = 1

\* Every record of a batch of three failed, in mapping and at upload, and the call
\* returned.
C4_Witness ==
    /\ BatchReturned
    /\ Len(bLog) = 3
    /\ \A i \in BatchPositions : bLog[i].n_failures = 1
    /\ \E i \in BatchPositions : bLog[i].map_exc # ""
    /\ \E i \in BatchPositions : bLog[i].upload_rejected

(***************************************************************************)
(* Properties of both entry points.                                        *)
(***************************************************************************)
AdapterNotFoundReport(report) ==
    /\ Len(report.failures) = 1
    /\ report.failures[1].error = "AdapterNotFound"
    /\ report.successes = <<>>
    /\ report.warnings = <<>>

\* C5: a call for a platform that has no adapter returns at once a report with one
\* AdapterNotFound failure and nothing else, whatever the number of records, and no
\* record is fetched, mapped or uploaded.
C5_UnsupportedPlatformReportedOnce ==
    /\ (bpc # "idle" /\ ~HasAdapter(bPlatform)) =>
          bpc = "returned" /\ AdapterNotFoundReport(bReport) /\ bLog = <<>>
    /\ (spc # "idle" /\ ~HasAdapter(sPlatform)) =>
          /\ spc = "returned" /\ AdapterNotFoundReport(sReport)
          /\ sStages = <<>> /\ sUploaded = <<>>

\* A batch of three records for a platform without adapter has returned.
C5_Witness ==
    /\ bpc = "returned"
    /\ ~HasAdapter(bPlatform)
    /\ Len(bFileData) = 3
    /\ AdapterNotFoundReport(bReport)
(***************************************************************************)
(* Properties of migrate_campaign.                                         *)
(***************************************************************************)
StageOrder == <<"fetch", "map", "override", "upload">>

\* What an override item (key, value) asks of the uploaded record.
Patched(uploaded, key, value) ==
    IF IsNone(value) THEN ~DHas(uploaded, key)
    ELSE DHas(uploaded, key) /\ DGet(uploaded, key) = value

\* The key is in both records with one value, or in neither.
SameAt(mapped, uploaded, key) ==
    /\ DHas(mapped, key) <=> DHas(uploaded, key)
    /\ DHas(mapped, key) => DGet(mapped, key) = DGet(uploaded, key)

\* C6: the record handed to create_campaign is the mapped record patched by the
\* overrides: a key overridden with None is not in it, a key overridden with another
\* value is in it with that value, whether mapping produced the key or not, and any
\* other key is as mapping left it; without overrides it is the mapped record.
C6_UploadedIsMappedPatched ==
    sUploaded # <<>> =>
        IF sOverride.t = "dict"
        THEN /\ \A j \in 1..Len(sOverride.v) :
                   Patched(sUploaded[1], sOverride.v[j].k, sOverride.v[j].v)
             /\ \A key \in DKeys(sMapped) \cup DKeys(sUploaded[1]) :
                   ~DHas(sOverride.v, key) => SameAt(sMapped, sUploaded[1], key)
        ELSE sUploaded[1] = sMapped

\* Overrides that remove a mapped key and add a new one reached the upload; so did
\* overrides that replace mapped values by 0 and by another name.
C6_Witness ==
    /\ sUploaded # <<>>
    /\ sOverride.t = "dict"
    /\ \/ /\ DHas(sOverride.v, "note") /\ DHas(sOverride.v, "name")
          /\ DHas(sMapped, "name") /\ ~DHas(sMapped, "note")
          /\ ~DHas(sUploaded[1], "name") /\ DHas(sUploaded[1], "note")
       \/ /\ DHas(sOverride.v, "daily_cap")
          /\ DHas(sMapped, "daily_cap") /\ DGet(sMapped, "daily_cap") # PInt(0)
          /\ DGet(sUploaded[1], "daily_cap") = PInt(0)

\* C7: the stages of a call run in the order fetch, map, override, upload; no
\* exception reaches the caller; upload is called in the upload stage only; a call
\* that returned before the upload stage failed in fetch or in mapping, and its
\* report has exactly one failure.
C7_StagesInOrderFailureTerminal ==
    /\ spc # "raised"
    /\ Len(sStages) <= Len(StageOrder)
    /\ sStages = SubSeq(StageOrder, 1, Len(sStages))
    /\ Len(sUploaded) = (IF Len(sStages) = Len(StageOrder) THEN 1 ELSE 0)
    /\ (spc = "returned" /\ HasAdapter(sPlatform) /\ Len(sStages) < Len(StageOrder)) =>
          /\ sStages \in {<<"fetch">>, <<"fetch", "map">>}
          /\ Len(sReport.failures) = 1
          /\ sUploaded = <<>>
    /\ (spc = "returned" /\ Len(sStages) = Len(StageOrder)) =>
          Len(sReport.failures) <= 1

\* A call returned after mapping raised: the one failure is the mapper's exception.
C7_Witness ==
    /\ spc = "returned"
    /\ sStages = <<"fetch", "map">>
    /\ Len(sReport.failures) = 1
    /\ sReport.failures[1].error \in {"TypeError", "AttributeError"}
    /\ sUploaded = <<>>

\* C8: every record that reaches the field mapper, in a batch or alone, is one in
\* which the structural validator finds no issue.
C8_OnlyValidRecordsAreMapped ==
    /\ \A i \in BatchPositions : bLog[i].n_issues = 0
    /\ Len(sStages) >= 2 => StructuralIssues(sPlatform, sSource, 0) = <<>>
(***************************************************************************)
(* Properties of _validate_single_campaign.                                *)
(***************************************************************************)
ValidateSchema == LoadPlatformSchema(vPlatform)

\* The value is within the bounds of the field, where the field has bounds.
WithinBounds(value, field_def) ==
    (field_def.field_type \in {"number", "integer"} /\ IsNumeric(value)) =>
        /\ IsNone(field_def.min_value) \/ Num(value) >= Num(field_def.min_value)
        /\ IsNone(field_def.max_value) \/ Num(value) <= Num(field_def.max_value)

RECURSIVE ValueConforms(_, _, _)
\* The value has the declared type of the field, is within its bounds and among
\* its allowed values, and so are the fields of a nested object that are present;
\* with strict, no string is blank either.
ValueConforms(value, field_def, strict) ==
    /\ CheckType(value, field_def.field_type)
    /\ WithinBounds(value, field_def)
    /\ Len(field_def.allowed_values) > 0 => InAllowed(value, field_def.allowed_values)
    /\ (strict /\ field_def.field_type = "string") => value.v \notin BlankStrings
    /\ \A k \in 1..Len(field_def.nested_schema) :
          (field_def.field_type = "object" /\ DHas(value.v, field_def.nested_schema[k].name))
              => ValueConforms(DGet(value.v, field_def.nested_schema[k].name),
                               field_def.nested_schema[k], strict)

\* Every required field of the schema is present and every present one conforms;
\* with strict, the record has no key outside the schema either.
RecordConforms(campaign, fields, strict) ==
    /\ \A k \in 1..Len(fields) :
          /\ fields[k].required => DHas(campaign, fields[k].name)
          /\ DHas(campaign, fields[k].name)
                => ValueConforms(DGet(campaign, fields[k].name), fields[k], strict)
    /\ strict => \A j \in 1..Len(campaign) : SchemaHas(fields, campaign[j].k)

\* C9, as stated: a record with every required schema field present, every present
\* schema field of its declared type, and every value within its bounds and allowed
\* values, gets zero issues.
C9_ConformingRecordHasNoIssue ==
    (vpc = "done" /\ RecordConforms(vCampaign, ValidateSchema, FALSE)) => vIssues = <<>>

\* C9, amended: such a record gets zero issues when, in addition, none of its
\* string fields is empty or blank and it has no key the schema does not define.
C9_StrictlyConformingRecordHasNoIssue ==
    (vpc = "done" /\ RecordConforms(vCampaign, ValidateSchema, TRUE)) => vIssues = <<>>

\* A facebook record with its three required fields, a budget on a bound and a
\* nested targeting object was validated and conforms.
C9_Witness ==
    /\ vpc = "done"
    /\ vPlatform = "facebook"
    /\ RecordConforms(vCampaign, ValidateSchema, TRUE)
    /\ DHas(vCampaign, "targeting")
    /\ DHas(DGet(vCampaign, "targeting").v, "age_min")
    /\ DGet(vCampaign, "daily_budget") \in {PInt(1), PFloat(100000, 0)}
    /\ vIssues = <<>>

\* The issues found for a top-level field: those of the field and of what is
\* nested in it.
IssuesOf(name) == {i \in 1..Len(vIssues) : vIssues[i].field_path[1] = name}

\* C10: for a schema field that is required and absent from the record, the
\* validator returns exactly one issue about the field, a missing_required_field
\* whose field_path is that field.
C10_MissingRequiredFieldOnce ==
    vpc = "done" =>
        \A k \in 1..Len(ValidateSchema) :
            (ValidateSchema[k].required /\ ~DHas(vCampaign, ValidateSchema[k].name)) =>
                /\ Cardinality(IssuesOf(ValidateSchema[k].name)) = 1
                /\ \A i \in IssuesOf(ValidateSchema[k].name) :
                      /\ vIssues[i].issue_type = "missing_required_field"
                      /\ vIssues[i].field_path = <<ValidateSchema[k].name>>

\* A facebook record without name and without daily_budget was validated, and has
\* other issues besides.
C10_Witness ==
    /\ vpc = "done"
    /\ vPlatform = "facebook"
    /\ ~DHas(vCampaign, "name")
    /\ ~DHas(vCampaign, "daily_budget")
    /\ Cardinality(IssuesOf("name")) = 1
    /\ Cardinality(IssuesOf("daily_budget")) = 1
    /\ Len(vIssues) > 3
(***************************************************************************)
(* Properties of _validate_field_value.                                    *)
(***************************************************************************)
\* The kind of a value, among string, integer, non-integer number, boolean,
\* mapping, list and null.
KindOf(value) ==
    CASE value.t = "str" -> "string"
      [] value.t = "int" -> "integer"
      [] value.t = "float" -> "non-integer number"
      [] value.t = "bool" -> "boolean"
      [] value.t = "dict" -> "mapping"
      [] value.t = "list" -> "list"
      [] OTHER -> "null"

\* The kinds of value that are of a FieldType: an integer is a number too.
KindsOfType(field_type) ==
    CASE field_type = "string" -> {"string"}
      [] field_type = "number" -> {"integer", "non-integer number"}
      [] field_type = "integer" -> {"integer"}
      [] field_type = "boolean" -> {"boolean"}
      [] field_type = "object" -> {"mapping"}
      [] field_type = "array" -> {"list"}
      [] OTHER -> {}

OneTypeMismatch ==
    /\ Len(fIssues) = 1
    /\ fIssues[1].issue_type = "type_mismatch"
    /\ fIssues[1].field_path = <<fDef.name>>

\* C11: a value whose kind is not one of the field's declared type gets exactly one
\* issue, a type_mismatch of the field, and nothing else, nested fields included.
C11_WrongTypeOneMismatch ==
    (fpc = "done" /\ KindOf(fValue) \notin KindsOfType(fDef.field_type)) => OneTypeMismatch

\* C11 without the booleans handed to number and integer fields: a value that
\* isinstance does not accept for the declared type gets exactly one issue, a
\* type_mismatch of the field.
C11_RejectedByIsinstanceOneMismatch ==
    (/\ fpc = "done"
     /\ KindOf(fValue) \notin KindsOfType(fDef.field_type)
     /\ ~(fValue.t = "bool" /\ fDef.field_type \in {"number", "integer"}))
    => OneTypeMismatch

\* The issues of a type that _validate_field_value returned for the field itself.
FieldIssues(issue_type) ==
    {i \in 1..Len(fIssues) :
        fIssues[i].issue_type = issue_type /\ fIssues[i].field_path = <<fDef.name>>}

BelowMin == ~IsNone(fDef.min_value) /\ Num(fValue) < Num(fDef.min_value)
AboveMax == ~IsNone(fDef.max_value) /\ Num(fValue) > Num(fDef.max_value)
NotAllowed == Len(fDef.allowed_values) > 0 /\ ~InAllowed(fValue, fDef.allowed_values)

\* C12: for a number or integer field and a value of its type, there is one
\* value_too_small (expected ">= min", actual the value) exactly when the value is
\* below min_value, one value_too_large exactly when it is above max_value, so none
\* for a value on a bound; and there is one invalid_value exactly when the value is
\* not among the allowed values, out of bounds or not; nothing else is reported.
C12_BoundsInclusiveNoSuppression ==
    (/\ fpc = "done"
     /\ fDef.field_type \in {"number", "integer"}
     /\ CheckType(fValue, fDef.field_type))
    => /\ Cardinality(FieldIssues("value_too_small")) = (IF BelowMin THEN 1 ELSE 0)
       /\ Cardinality(FieldIssues("value_too_large")) = (IF AboveMax THEN 1 ELSE 0)
       /\ Cardinality(FieldIssues("invalid_value")) = (IF NotAllowed THEN 1 ELSE 0)
       /\ \A i \in FieldIssues("value_too_small") :
             /\ fIssues[i].expected = <<">= ", fDef.min_value>>
             /\ fIssues[i].actual = Str(fValue)
       /\ \A i \in FieldIssues("value_too_large") :
             /\ fIssues[i].expected = <<"<= ", fDef.max_value>>
             /\ fIssues[i].actual = Str(fValue)
       /\ Len(fIssues) = Cardinality(FieldIssues("value_too_small"))
                         + Cardinality(FieldIssues("value_too_large"))
                         + Cardinality(FieldIssues("invalid_value"))

\* An integer below its minimum and not among the allowed values was validated:
\* both issues are there, the bounds issue first.
C12_Witness ==
    /\ fpc = "done"
    /\ fDef.field_type = "integer"
    /\ fValue = PInt(10)
    /\ Len(fIssues) = 2
    /\ fIssues[1].issue_type = "value_too_small"
    /\ fIssues[2].issue_type = "invalid_value"

(***************************************************************************)
(* More properties of _validate_single_campaign.                           *)
(***************************************************************************)
UnknownIssuesOf(key) ==
    {i \in 1..Len(vIssues) :
        vIssues[i].issue_type = "unknown_field" /\ vIssues[i].field_path = <<key>>}

\* C13: each top-level key of the record that the schema does not define gets
\* exactly one unknown_field issue, a key the schema defines gets none, every
\* unknown_field issue is about a key of the record, and a record with a key the
\* schema does not define has issues, so it is not valid.
C13_OneUnknownFieldPerUnknownKey ==
    vpc = "done" =>
        /\ \A j \in 1..Len(vCampaign) :
              Cardinality(UnknownIssuesOf(vCampaign[j].k))
                  = (IF SchemaHas(ValidateSchema, vCampaign[j].k) THEN 0 ELSE 1)
        /\ \A i \in 1..Len(vIssues) :
              vIssues[i].issue_type = "unknown_field"
                  => /\ Len(vIssues[i].field_path) = 1
                     /\ DHas(vCampaign, vIssues[i].field_path[1])
        /\ (\E j \in 1..Len(vCampaign) : ~SchemaHas(ValidateSchema, vCampaign[j].k))
              => vIssues # <<>>

\* A facebook record that is fine but for two keys outside the schema was
\* validated: its two issues are the two unknown_field ones.
C13_Witness ==
    /\ vpc = "done"
    /\ vPlatform = "facebook"
    /\ DHas(vCampaign, "total_budget") /\ DHas(vCampaign, "extra")
    /\ DHas(vCampaign, "name")
    /\ Len(vIssues) = 2
    /\ Cardinality(UnknownIssuesOf("total_budget")) = 1
    /\ Cardinality(UnknownIssuesOf("extra")) = 1

(***************************************************************************)
(* Properties of validate_campaigns_against_schema and                     *)
(* validate_campaign_data.                                                 *)
(***************************************************************************)
DataSchema == LoadPlatformSchema(cPlatform)
DataEnded == cpc \in {"returned", "raised"}

\* The issues of the record at input position i, counted from 0.
IssuesAt(i) == ValidateSingleCampaign(cCampaigns[i + 1], DataSchema, i)
HasNoIssue(campaign) == ValidateSingleCampaign(campaign, DataSchema, 0) = <<>>

\* The issues of the records at positions i, i + 1, ... in that order.
RECURSIVE IssuesFrom(_)
IssuesFrom(i) == IF i >= Len(cCampaigns) THEN <<>> ELSE IssuesAt(i) \o IssuesFrom(i + 1)

\* C14: when validate_campaigns_against_schema is through, valid_campaigns is the
\* input with the records that have issues left out, in input order, all_issues
\* is the issues of the records put one after the other in input order, and each
\* issue's campaign_index is the position, from 0, of a record that has this issue.
C14_ExactPartition ==
    DataEnded =>
        /\ cPartition.valid = SelectSeq(cCampaigns, HasNoIssue)
        /\ cPartition.issues = IssuesFrom(0)
        /\ \A k \in 1..Len(cPartition.issues) :
              /\ cPartition.issues[k].campaign_index \in 0..(Len(cCampaigns) - 1)
              /\ \E h \in 1..Len(IssuesAt(cPartition.issues[k].campaign_index)) :
                    IssuesAt(cPartition.issues[k].campaign_index)[h] = cPartition.issues[k]

\* A batch of three with a record without issues between two records with issues
\* was validated.
C14_Witness ==
    /\ DataEnded
    /\ Len(cCampaigns) = 3
    /\ IssuesAt(0) # <<>> /\ IssuesAt(1) = <<>> /\ IssuesAt(2) # <<>>
    /\ cCampaigns[1] # cCampaigns[3]
    /\ cPartition.valid = <<cCampaigns[2]>>
    /\ Len(cPartition.issues) = Len(IssuesAt(0)) + Len(IssuesAt(2))

\* C15: validate_campaign_data never ends with an exception: whatever the batch,
\* it returns the valid records and all the issues found.
C15_IssuesReturnedNeverRaised ==
    /\ cpc # "raised"
    /\ cpc = "returned" =>
          /\ cResult.validated = cPartition.valid
          /\ cResult.has_issues = (cPartition.issues # <<>>)

\* C16: for a platform without schema definition the validation fails: it does not
\* end by returning, and no record is sorted into valid or invalid.
C16_UndefinedPlatformFails ==
    (DataEnded /\ cPlatform \notin {"facebook", "twitter"}) =>
        /\ cpc = "raised"
        /\ cIdx = 0
        /\ cPartition = EmptyPartition

(***************************************************************************)
(* Properties of map_to_taboola.                                           *)
(***************************************************************************)
\* The target fields the loop has processed, and what line 112 produced for each.
MapProcessed == 1..mK
TransformedAt(i) == TransformStep(mSchema[i].rule, ReadSource(mSource, mSchema[i].rule))
TransformRaisedAt(i) == Raised(TransformedAt(i).exc)

\* The outcomes of a processed field.
CastFailedOn(rule, transformed) ==
    /\ ~Raised(transformed.exc)
    /\ ~IsNone(transformed.val)
    /\ Raised(Cast(transformed.val, rule.field_type).exc)
CastFailedAt(i) == CastFailedOn(mSchema[i].rule, TransformedAt(i))

IsCastWarning(w, taboola_field, field_type) ==
    /\ w.text = "Could not cast {field} to {field_type}. Error: {e}"
    /\ Len(w.args) = 3
    /\ w.args[1] = taboola_field
    /\ w.args[2] = field_type
CastWarningsAt(i) ==
    {n \in 1..Len(mAcc.warnings) :
        IsCastWarning(mAcc.warnings[n], mSchema[i].field, mSchema[i].rule.field_type)}

\* C17: when the coercion of a non-null value to the rule's field_type fails, the
\* target field is left out of the target record (the default is not used), exactly
\* one warning names the field and the attempted type, and the pass does not raise:
\* the loop goes on to the remaining target fields, and only the transform of a
\* later field can end the call with an exception.
C17_CastFailureOmitsFieldWarnsOnce ==
    \A i \in MapProcessed :
        CastFailedAt(i) =>
            /\ ~DHas(mAcc.data, mSchema[i].field)
            /\ Cardinality(CastWarningsAt(i)) = 1
            /\ (i = mK => ~Raised(mAcc.exc) /\ mpc \in {"loop", "returned"})
            /\ (Raised(mAcc.exc) => TransformRaisedAt(mK))
            /\ (mpc = "returned" => mK = Len(mSchema))

\* The static warning of the rule of field i among the returned warnings.  The
\* rules of one schema carry different warnings.
HasStaticWarning(i) == mSchema[i].rule.warning # ""
StaticWarningsAt(i) ==
    {n \in 1..Len(mAcc.warnings) : mAcc.warnings[n] = Msg(mSchema[i].rule.warning, <<>>)}

\* C18: a rule's static warning is among the returned warnings exactly once for each
\* field the loop has processed, whatever the outcome for the field: value written,
\* default used, nothing written, or coercion failed.
C18_StaticWarningWhateverOutcome ==
    \A i \in MapProcessed :
        HasStaticWarning(i) /\ ~TransformRaisedAt(i) =>
            Cardinality(StaticWarningsAt(i)) = 1

\* What the loop does: the static warning is there exactly once unless the coercion
\* failed, and then it is not there.
C18_StaticWarningUnlessCastFailed ==
    \A i \in MapProcessed :
        HasStaticWarning(i) /\ ~TransformRaisedAt(i) =>
            Cardinality(StaticWarningsAt(i)) = IF CastFailedAt(i) THEN 0 ELSE 1

\* The processed rules that name a transform of the registry and read no source
\* value: source_field unset, or not a key of source_data.
TransformOnAbsent(i) ==
    /\ mSchema[i].rule.transform \in Transformations
    /\ IsNone(ReadSource(mSource, mSchema[i].rule))

\* C19: every transform of the registry given None returns None without raising, so
\* a rule with a transform and an absent source value writes the rule's default.
C19_TransformsPassNoneThrough ==
    \A i \in MapProcessed :
        TransformOnAbsent(i) =>
            /\ TransformedAt(i) = Ok(None)
            /\ (~IsNone(mSchema[i].rule.default) =>
                    /\ DHas(mAcc.data, mSchema[i].field)
                    /\ DGet(mAcc.data, mSchema[i].field) = mSchema[i].rule.default)

\* What the registry does: divide_by_100 passes None through and the default is
\* written; the two extract transforms turn None into the empty list, which is
\* written in place of the default.
C19_OnlyDivideBy100PassesNone ==
    \A i \in MapProcessed :
        TransformOnAbsent(i) =>
            IF mSchema[i].rule.transform = "divide_by_100"
            THEN /\ TransformedAt(i) = Ok(None)
                 /\ (~IsNone(mSchema[i].rule.default) =>
                         DGetOrNone(mAcc.data, mSchema[i].field) = mSchema[i].rule.default)
            ELSE /\ TransformedAt(i) = Ok(PList(<<>>))
                 /\ DGetOrNone(mAcc.data, mSchema[i].field) = PList(<<>>)

\* The scenario: name from title, the budget (daily_cap) a float rule with
\* divide_by_100, applied to a record whose daily_budget is 'bad'.
BadBudgetScenario == mSource = SrcBad /\ mSchema = ScenarioSchema
BudgetCastWarnings ==
    {n \in 1..Len(mAcc.warnings) : IsCastWarning(mAcc.warnings[n], "daily_cap", "float")}

\* C20: mapping the record with daily_budget 'bad' does not abort: the call returns,
\* the target record has the name, leaves the budget out, and exactly one
\* cast-failure warning mentions the budget field and 'float'.
C20_BadBudgetDoesNotAbort ==
    BadBudgetScenario /\ mpc # "loop" =>
        /\ mpc = "returned"
        /\ DGetOrNone(mAcc.data, "name") = PStr("Promo")
        /\ ~DHas(mAcc.data, "daily_cap")
        /\ Cardinality(BudgetCastWarnings) = 1

\* What the call does: divide_by_100 raises TypeError on the string before the
\* guarded coercion, and the exception leaves map_to_taboola at the budget field.
C20_BadBudgetRaisesTypeError ==
    BadBudgetScenario /\ mpc # "loop" =>
        /\ mpc = "raised"
        /\ mAcc.exc.cls = "TypeError"
        /\ mK = 2
        /\ mAcc.warnings = <<>>

\* The value line 112 left for field i is None and the rule has a default.
DefaultDueAt(i) ==
    /\ ~TransformRaisedAt(i)
    /\ IsNone(TransformedAt(i).val)
    /\ ~IsNone(mSchema[i].rule.default)
\* Line 112 left a value for field i.
ValueAt(i) == ~TransformRaisedAt(i) /\ ~IsNone(TransformedAt(i).val)
WrittenAt(i) == DGetOrNone(mAcc.data, mSchema[i].field)
CoercedValueAt(i) == Cast(TransformedAt(i).val, mSchema[i].rule.field_type)

\* C21: a processed target field holds the rule's default exactly when the value is
\* None after the transform step and the default is defined; the default is written
\* as it is defined, without coercion to field_type; where the transform step left a
\* value, the field holds the coerced value or (coercion failed) nothing, never the
\* default in its place.
C21_DefaultExactlyWhenNoValue ==
    \A i \in MapProcessed :
        /\ (DefaultDueAt(i) =>
                DHas(mAcc.data, mSchema[i].field) /\ WrittenAt(i) = mSchema[i].rule.default)
        /\ (ValueAt(i) =>
                IF CastFailedAt(i) THEN ~DHas(mAcc.data, mSchema[i].field)
                ELSE DHas(mAcc.data, mSchema[i].field) /\ WrittenAt(i) = CoercedValueAt(i).val)
        /\ (~TransformRaisedAt(i) /\ ~DefaultDueAt(i) /\ ~ValueAt(i) =>
                ~DHas(mAcc.data, mSchema[i].field))

\* A call returned in which one field got a default that coercion to its field_type
\* would have changed, and another field with a default got its source value.
C21_Witness ==
    /\ mpc = "returned"
    /\ \E i \in MapProcessed :
          /\ DefaultDueAt(i)
          /\ Cast(mSchema[i].rule.default, mSchema[i].rule.field_type).val
                # mSchema[i].rule.default
          /\ WrittenAt(i) = mSchema[i].rule.default
    /\ \E j \in MapProcessed :
          /\ ValueAt(j) /\ ~CastFailedAt(j)
          /\ ~IsNone(mSchema[j].rule.default)
          /\ WrittenAt(j) # mSchema[j].rule.default

\* C22: a target field with neither a value after the transform step nor a default
\* gets no value, and no warning about it is added to the migration report or to the
\* returned warnings.
NoValueNoDefaultAt(i) ==
    /\ ~TransformRaisedAt(i)
    /\ IsNone(TransformedAt(i).val)
    /\ IsNone(mSchema[i].rule.default)
NamesField(w, taboola_field) == \E n \in 1..Len(w.args) : w.args[n] = taboola_field
C22_NoValueNoDefaultIsSilent ==
    \A i \in MapProcessed :
        NoValueNoDefaultAt(i) =>
            /\ ~DHas(mAcc.data, mSchema[i].field)
            /\ \A n \in 1..Len(mAcc.report_warnings) :
                   ~NamesField(mAcc.report_warnings[n], mSchema[i].field)
            /\ \A n \in 1..Len(mAcc.warnings) :
                   ~NamesField(mAcc.warnings[n], mSchema[i].field)

\* What the loop does: nothing is written, and exactly one "No value or default
\* found" warning for the field goes to the report, none to the returned warnings.
MissingFieldWarning(taboola_field) ==
    Msg("No value or default found for required field '{field}'.", <<taboola_field>>)
C22_NoValueNoDefaultWarnsInReport ==
    \A i \in MapProcessed :
        NoValueNoDefaultAt(i) =>
            /\ ~DHas(mAcc.data, mSchema[i].field)
            /\ Cardinality({n \in 1..Len(mAcc.report_warnings) :
                    mAcc.report_warnings[n] = MissingFieldWarning(mSchema[i].field)}) = 1
            /\ \A n \in 1..Len(mAcc.warnings) :
                   ~NamesField(mAcc.warnings[n], mSchema[i].field)

\* C23: mapping is a pure function of the source record and the schema: a call
\* with the same arguments ends as the earlier one did, with an equal target record
\* and equal warnings, the source record is what it was, and the call modified no
\* state besides the pair it returns (the report passed to it included).
MapEnded == mpc \in {"returned", "raised"}
SameAsEarlier(n) ==
    /\ mPrev[n].pc = mpc
    /\ mPrev[n].acc.data = mAcc.data
    /\ mPrev[n].acc.warnings = mAcc.warnings
    /\ mPrev[n].source = mSource
C23_MappingIsPure ==
    MapEnded =>
        /\ \A n \in 1..Len(mPrev) : SameAsEarlier(n)
        /\ mAcc.report_warnings = <<>>

\* What the calls do: equal results and an unchanged source record, and every call
\* adds the same warnings to the report it is given.
C23_SameResultSameReportWarnings ==
    MapEnded =>
        \A n \in 1..Len(mPrev) :
            SameAsEarlier(n) /\ mPrev[n].acc.report_warnings = mAcc.report_warnings

(***************************************************************************)
(* Properties of the MigrationReport over invocations.                     *)
(***************************************************************************)
GrowsAtEnd(old, new) == Len(old) <= Len(new) /\ SubSeq(new, 1, Len(old)) = old
ReportGrows(old, new) ==
    /\ GrowsAtEnd(old.successes, new.successes)
    /\ GrowsAtEnd(old.warnings, new.warnings)
    /\ GrowsAtEnd(old.failures, new.failures)

\* The report of a call that has just begun: empty, or with the one failure of an
\* unsupported platform and the call already over.
NotSupported(platform) ==
    AddFailure(EmptyReport,
               Msg("Migration from '{source_platform}' is not supported.", <<platform>>),
               "AdapterNotFound")
BegunWith(pc, report, platform) ==
    IF HasAdapter(platform) THEN pc \notin {"idle", "returned", "raised"} /\ report = EmptyReport
    ELSE pc = "returned" /\ report = NotSupported(platform)

\* C24: while a migration runs, the successes, warnings and failures of its report
\* only grow at the end; and a call of migrate_campaign or
\* migrate_campaigns_from_file begins with an empty report of its own, whatever the
\* report of the invocation before it holds.
C24_ReportAppendOnlyPerInvocation ==
    [][ /\ (bpc = "loop" => ReportGrows(bReport, bReport'))
        /\ (spc \in {"fetch", "map", "override", "upload"} => ReportGrows(sReport, sReport'))
        /\ (nCalls' # nCalls =>
                \/ BatchGone /\ BegunWith(spc', sReport', sPlatform')
                \/ SingleGone /\ BegunWith(bpc', bReport', bPlatform')) ]_vars

\* A second invocation returned a report with successes, warnings and failures.
C24_Witness ==
    /\ nCalls >= 2
    /\ \/ /\ bpc = "returned" /\ Len(bReport.successes) >= 2
          /\ Len(bReport.warnings) >= 1 /\ Len(bReport.failures) >= 1
       \/ /\ spc = "returned" /\ Len(sReport.successes) >= 2
          /\ Len(sReport.warnings) >= 1 /\ Len(sReport.failures) >= 1

(***************************************************************************)
(* Properties of the comparison summary.                                   *)
(***************************************************************************)
\* validate_campaign_data returned a comparison summary.
HasSummary == cpc = "returned" /\ cResult.has_issues
SerializedIssues == cResult.schema_comparison.validation_issues

\* C25: every issue of the comparison summary is serialized with campaign_number
\* equal to campaign_index + 1, and with the campaign_index of the issue it was made
\* from: the position, from 0, of its record in the batch.
C25_CampaignNumberIsIndexPlusOne ==
    HasSummary =>
        /\ Len(SerializedIssues) = Len(cPartition.issues)
        /\ \A n \in 1..Len(SerializedIssues) :
              /\ SerializedIssues[n].campaign_number = SerializedIssues[n].campaign_index + 1
              /\ SerializedIssues[n].campaign_index = cPartition.issues[n].campaign_index
              /\ SerializedIssues[n].campaign_index \in 0..(Len(cCampaigns) - 1)
              /\ \E h \in 1..Len(IssuesAt(SerializedIssues[n].campaign_index)) :
                    IssuesAt(SerializedIssues[n].campaign_index)[h] = cPartition.issues[n]

\* A summary with an issue of the first record and an issue of the third.
C25_Witness ==
    /\ HasSummary
    /\ \E n \in 1..Len(SerializedIssues) :
          SerializedIssues[n].campaign_index = 0 /\ SerializedIssues[n].campaign_number = 1
    /\ \E n \in 1..Len(SerializedIssues) :
          SerializedIssues[n].campaign_index = 2 /\ SerializedIssues[n].campaign_number = 3

\* The three groupings of the summary's issue_patterns, and the issues that have a
\* key under each.
Patterns == cResult.schema_comparison.issue_patterns
IssuesWithKey(key) ==
    {n \in 1..Len(cPartition.issues) : IssueKey(cPartition.issues[n]) = key}
IssuesWithPath(field_path) ==
    {n \in 1..Len(cPartition.issues) : cPartition.issues[n].field_path = field_path}
IssuesWithType(issue_type) ==
    {n \in 1..Len(cPartition.issues) : cPartition.issues[n].issue_type = issue_type}

RECURSIVE SumCounts(_, _)
SumCounts(counts, k) == IF k > Len(counts) THEN 0 ELSE counts[k].v + SumCounts(counts, k + 1)

DistinctKeys(counts) ==
    \A a, b \in 1..Len(counts) : counts[a].k = counts[b].k => a = b

\* C27: in issue_patterns, each grouping (by field_path and issue_type, by
\* field_path, by issue_type) has one entry per key that occurs, holding the number
\* of issues with that key, so the counts of each grouping add up to the number of
\* issues.
C27_PatternCountsExact ==
    HasSummary =>
        /\ DistinctKeys(Patterns.most_common_issues)
        /\ DistinctKeys(Patterns.affected_fields)
        /\ DistinctKeys(Patterns.issue_types)
        /\ \A k \in 1..Len(Patterns.most_common_issues) :
              Patterns.most_common_issues[k].v
                 = Cardinality(IssuesWithKey(Patterns.most_common_issues[k].k))
        /\ \A k \in 1..Len(Patterns.affected_fields) :
              Patterns.affected_fields[k].v
                 = Cardinality(IssuesWithPath(Patterns.affected_fields[k].k))
        /\ \A k \in 1..Len(Patterns.issue_types) :
              Patterns.issue_types[k].v
                 = Cardinality(IssuesWithType(Patterns.issue_types[k].k))
        /\ \A n \in 1..Len(cPartition.issues) :
              /\ DHas(Patterns.most_common_issues, IssueKey(cPartition.issues[n]))
              /\ DHas(Patterns.affected_fields, cPartition.issues[n].field_path)
              /\ DHas(Patterns.issue_types, cPartition.issues[n].issue_type)
        /\ SumCounts(Patterns.most_common_issues, 1) = Len(cPartition.issues)
        /\ SumCounts(Patterns.affected_fields, 1) = Len(cPartition.issues)
        /\ SumCounts(Patterns.issue_types, 1) = Len(cPartition.issues)
        /\ cResult.schema_comparison.total_issues = Len(cPartition.issues)

\* A summary in which a key of the first grouping counts two issues, and the
\* groupings by field_path and by issue_type have a different number of keys.
C27_Witness ==
    /\ HasSummary
    /\ \E k \in 1..Len(Patterns.most_common_issues) : Patterns.most_common_issues[k].v >= 2
    /\ Len(Patterns.affected_fields) # Len(Patterns.issue_types)
    /\ Len(Patterns.issue_types) >= 2

(***************************************************************************)
(* Properties of the nested validation.                                    *)
(***************************************************************************)
NestedCase ==
    /\ fpc = "done"
    /\ fDef.field_type = "object"
    /\ Len(fDef.nested_schema) > 0
    /\ fValue.t = "dict"

\* The nested keys declared in the nested schema and present in the value.
NestedPresent ==
    {k \in 1..Len(fDef.nested_schema) : DHas(fValue.v, fDef.nested_schema[k].name)}

\* The issues of the value of nested key k when it is validated as a top-level
\* field is, under the path that is its name.
AsTopLevel(k) ==
    ValidateFieldValue(DGet(fValue.v, fDef.nested_schema[k].name), fDef.nested_schema[k],
                       fIndex, <<fDef.nested_schema[k].name>>)
\* The same issues with the parent's path and a dot in front of each field_path.
UnderParent(issues) ==
    [n \in 1..Len(issues) |->
        [issues[n] EXCEPT !.field_path = <<fDef.name, ".">> \o @]]

IsUnderKey(issue, k) ==
    /\ Len(issue.field_path) >= 3
    /\ SubSeq(issue.field_path, 1, 3) = <<fDef.name, ".", fDef.nested_schema[k].name>>
IssuesUnderKey(k) == SelectSeq(fIssues, LAMBDA issue : IsUnderKey(issue, k))

\* C26: for an object field with a nested schema, the issues of each nested key
\* that is present and declared are the issues the same value gets as a top-level
\* field (type, bounds, allowed values, empty string, nested objects), with the
\* parent's path and a dot in front of the nested key; the keys that are absent or
\* not declared give no issue.
C26_NestedKeysValidatedUnderParentPath ==
    NestedCase =>
        /\ \A k \in NestedPresent : IssuesUnderKey(k) = UnderParent(AsTopLevel(k))
        /\ \A n \in 1..Len(fIssues) :
              \/ fIssues[n].field_path = <<fDef.name>>
              \/ \E k \in NestedPresent : IsUnderKey(fIssues[n], k)

\* An object whose nested keys fail the allowed-values, empty-string and bounds
\* checks, hold a nested object with an issue of its own, and include an undeclared
\* key.
IssueTypesUnder(k) == {IssuesUnderKey(k)[n].issue_type : n \in 1..Len(IssuesUnderKey(k))}
C26_Witness ==
    /\ NestedCase
    /\ \E k \in NestedPresent : "invalid_value" \in IssueTypesUnder(k)
    /\ \E k \in NestedPresent : "empty_string" \in IssueTypesUnder(k)
    /\ \E k \in NestedPresent : "value_too_large" \in IssueTypesUnder(k)
    /\ \E n \in 1..Len(fIssues) : Len(fIssues[n].field_path) = 5
    /\ \E key \in DKeys(fValue.v) :
          \A k \in 1..Len(fDef.nested_schema) : fDef.nested_schema[k].name # key

(***************************************************************************)
(* Valid records and records with issues, counted.                         *)
(***************************************************************************)
IssueIndexes == {cPartition.issues[n].campaign_index : n \in 1..Len(cPartition.issues)}
InValid(campaign) == \E v \in 1..Len(cPartition.valid) : cPartition.valid[v] = campaign

\* C30: when validate_campaigns_against_schema is through, the number of valid
\* records plus the number of different campaign_index values among the issues is
\* the number of input records, and no issue has the index of a record that is
\* among the valid records.
C30_ValidPlusIssueIndexesIsInput ==
    DataEnded =>
        /\ Len(cPartition.valid) + Cardinality(IssueIndexes) = Len(cCampaigns)
        /\ \A i \in IssueIndexes :
              /\ i \in 0..(Len(cCampaigns) - 1)
              /\ ~InValid(cCampaigns[i + 1])

\* A batch of three with two records with several issues each and one valid record.
C30_Witness ==
    /\ DataEnded
    /\ Len(cCampaigns) = 3
    /\ Len(cPartition.valid) = 1
    /\ Cardinality(IssueIndexes) = 2
    /\ Len(cPartition.issues) > 2

(***************************************************************************)
(* Properties of with_retry and with_fallback.                             *)
(***************************************************************************)
RetryEnded == rpc \in {"returned", "raised"}
LastCall == rCalls[Len(rCalls)]

\* C28: func is called at most max_attempts times, each call after a call that
\* raised; the wrapper returns the result of the first call that succeeds and calls
\* no more; when max_attempts calls were made and all raised, the exception of the
\* last one leaves the wrapper; an exception of category VALIDATION leaves it right
\* after the call that raised it, without another call.  (With max_attempts 0 there
\* is no call at all.)
C28_RetryAtMostMaxAttempts ==
    /\ Len(rCalls) <= rMax
    /\ \A k \in 1..Len(rCalls) : rCalls[k] = rPlan[k]
    /\ \A k \in 1..(Len(rCalls) - 1) : Raised(rCalls[k].exc) /\ ~NotRetried(rCalls[k].exc)
    /\ (Len(rCalls) >= 1 /\ ~Raised(LastCall.exc) =>
            rpc = "returned" /\ rEnd = Ok(LastCall.val))
    /\ (rpc = "returned" => Len(rCalls) >= 1 /\ ~Raised(LastCall.exc))
    /\ (Len(rCalls) >= 1 /\ Raised(LastCall.exc) /\ ErrorCategory(LastCall.exc) = "validation" =>
            rpc = "raised" /\ rEnd.exc = LastCall.exc)
    /\ (rpc = "raised" /\ Len(rCalls) >= 1 =>
            /\ rEnd.exc = LastCall.exc
            /\ (Len(rCalls) = rMax \/ ErrorCategory(LastCall.exc) = "validation"))
    /\ (rpc = "loop" /\ Len(rCalls) >= 1 => rLast = LastCall.exc)

\* The third of three attempts succeeded after two different failures.
C28_Witness ==
    /\ rpc = "returned"
    /\ rMax = 3
    /\ Len(rCalls) = 3
    /\ rCalls[1].exc # rCalls[2].exc
    /\ rEnd = Ok(PStr("Success"))

FallbackEnded == wpc \in {"returned", "raised"}

\* C29: when func succeeds the wrapper returns its result and fallback_func is not
\* called; when func raises and fallback_func succeeds it returns the result of
\* fallback_func; when both raise, the exception of func leaves the wrapper, not
\* that of fallback_func.
C29_FallbackOnlyWhenMainRaises ==
    FallbackEnded =>
        IF ~Raised(wMain.exc)
        THEN wpc = "returned" /\ wEnd = Ok(wMain.val) /\ wCalls = <<"func">>
        ELSE /\ wCalls = <<"func", "fallback_func">>
             /\ IF ~Raised(wFallback.exc)
                THEN wpc = "returned" /\ wEnd = Ok(wFallback.val)
                ELSE wpc = "raised" /\ wEnd.exc = wMain.exc

\* Both functions raised, each an exception of its own.
C29_Witness ==
    /\ wpc = "raised"
    /\ Raised(wFallback.exc)
    /\ wFallback.exc # wMain.exc
    /\ wEnd.exc = wMain.exc
====
